---- MODULE Spec2Model ----
(***************************************************************************)
(* Model of llima-box: the environment controller (pkg/env/manager.go),    *)
(* the naming function (pkg/env/naming.go) and the guest state that the    *)
(* controller's remote commands read and change.                           *)
(*                                                                         *)
(* Text is modelled as a sequence of code points, each code point being a  *)
(* one-character string ("a", "/", ...); non-ASCII code points are named   *)
(* by a longer string ("U+03B1").                                          *)
(***************************************************************************)
EXTENDS Integers, Sequences, FiniteSets, TLC

(***************************************************************************)
(* Naming (pkg/env/naming.go)                                              *)
(***************************************************************************)

LowerLetters == <<"a","b","c","d","e","f","g","h","i","j","k","l","m",
                  "n","o","p","q","r","s","t","u","v","w","x","y","z">>

UpperLetters == <<"A","B","C","D","E","F","G","H","I","J","K","L","M",
                  "N","O","P","Q","R","S","T","U","V","W","X","Y","Z">>

Digits == {"0","1","2","3","4","5","6","7","8","9"}

\* Non-ASCII code points of the model's alphabet that unicode.IsLetter accepts.
NonAsciiLetters == {"U+03B1", "U+00E9"}

Range(s) == {s[i] : i \in DOMAIN s}

\* The code points of an ASCII string, and n times the code point c.
Chars(str) == [i \in 1..Len(str) |-> SubSeq(str, i, i)]

Repeat(c, n) == [i \in 1..n |-> c]

\* len(s): the bytes of the UTF-8 encoding; the non-ASCII code points of the
\* model's alphabet take two bytes each.
RECURSIVE ByteLen(_)
ByteLen(s) ==
    IF s = <<>> THEN 0
    ELSE (IF Len(s[1]) = 1 THEN 1 ELSE 2) + ByteLen(Tail(s))

\* strings.ToLower on one code point.
ToLowerRune(r) ==
    IF \E i \in DOMAIN UpperLetters : UpperLetters[i] = r
    THEN LowerLetters[CHOOSE i \in DOMAIN UpperLetters : UpperLetters[i] = r]
    ELSE r

\* unicode.IsLetter / unicode.IsDigit on the model's alphabet.
IsLetter(r) == r \in Range(LowerLetters) \cup Range(UpperLetters) \cup NonAsciiLetters

IsDigit(r) == r \in Digits

\* The per-rune replacement loop of sanitizeBasename (after ToLower).
SanitizeRune(r0) ==
    LET r == ToLowerRune(r0) IN
    IF r \in Range(LowerLetters) \/ r \in Digits THEN r
    ELSE IF r = "-" \/ r = "_" THEN r
    ELSE "-"

\* strings.ReplaceAll(s, "_", "-")
ReplaceUnderscores(s) == [i \in DOMAIN s |-> IF s[i] = "_" THEN "-" ELSE s[i]]

\* regexp `-+` replaced by "-": a hyphen is kept only if it does not follow one.
RECURSIVE CollapseHyphens(_)
CollapseHyphens(s) ==
    IF Len(s) <= 1 THEN s
    ELSE IF s[1] = "-" /\ s[2] = "-" THEN CollapseHyphens(Tail(s))
    ELSE <<s[1]>> \o CollapseHyphens(Tail(s))

RECURSIVE TrimLeftHyphens(_)
TrimLeftHyphens(s) ==
    IF s # <<>> /\ s[1] = "-" THEN TrimLeftHyphens(Tail(s)) ELSE s

RECURSIVE TrimRightHyphens(_)
TrimRightHyphens(s) ==
    IF s # <<>> /\ s[Len(s)] = "-" THEN TrimRightHyphens(SubSeq(s, 1, Len(s) - 1)) ELSE s

maxBaseLength == 27

\* The value of F at x, x being computed once: one statement of the code
\* followed by the statements that use its result.
Then(x, F(_)) == CHOOSE v \in {F(r) : r \in {x}} : TRUE

\* sanitizeBasename without "env-" put before a name that starts with a digit.
sanitizeBasename_NoPrefix(basename) ==
    Then([i \in DOMAIN basename |-> SanitizeRune(basename[i])],
         LAMBDA mapped :
           Then(TrimRightHyphens(TrimLeftHyphens(CollapseHyphens(ReplaceUnderscores(mapped)))),
                LAMBDA trimmed :
                  Then(IF trimmed = <<>> THEN <<"e","n","v">> ELSE trimmed,
                       LAMBDA defaulted :
                         IF Len(defaulted) > maxBaseLength
                         THEN TrimRightHyphens(SubSeq(defaulted, 1, maxBaseLength))
                         ELSE defaulted)))

sanitizeBasename(basename) ==
    Then([i \in DOMAIN basename |-> SanitizeRune(basename[i])],
         LAMBDA mapped :
           Then(TrimRightHyphens(TrimLeftHyphens(CollapseHyphens(ReplaceUnderscores(mapped)))),
                LAMBDA trimmed :
                  Then(IF Len(trimmed) > 0 /\ ~IsLetter(trimmed[1])
                       THEN <<"e","n","v","-">> \o trimmed ELSE trimmed,
                       LAMBDA prefixed :
                         Then(IF prefixed = <<>> THEN <<"e","n","v">> ELSE prefixed,
                              LAMBDA defaulted :
                                IF Len(defaulted) > maxBaseLength
                                THEN TrimRightHyphens(SubSeq(defaulted, 1, maxBaseLength))
                                ELSE defaulted))))

\* IsValidName.  rune(name[0]) is the first byte: for the non-ASCII code points
\* of the model's alphabet it is 0xC3 or 0xCE, letters both.
IsValidName(name) ==
    /\ ByteLen(name) # 0
    /\ ByteLen(name) <= 32
    /\ IsLetter(name[1]) \/ name[1] = "_"
    /\ \A i \in DOMAIN name :
          IsLetter(name[i]) \/ IsDigit(name[i]) \/ name[i] = "_" \/ name[i] = "-"

\* Path elements of a slash-separated path (empty elements dropped).
RECURSIVE SplitPath(_, _)
SplitPath(p, cur) ==
    IF p = <<>> THEN (IF cur = <<>> THEN <<>> ELSE <<cur>>)
    ELSE IF p[1] = "/"
         THEN (IF cur = <<>> THEN <<>> ELSE <<cur>>) \o SplitPath(Tail(p), <<>>)
         ELSE SplitPath(Tail(p), Append(cur, p[1]))

\* filepath.Clean on the elements of a rooted path: "." dropped, ".." pops.
RECURSIVE CleanElems(_, _)
CleanElems(elems, acc) ==
    IF elems = <<>> THEN acc
    ELSE IF elems[1] = <<".">> THEN CleanElems(Tail(elems), acc)
    ELSE IF elems[1] = <<".", ".">>
         THEN CleanElems(Tail(elems),
                         IF acc = <<>> THEN acc ELSE SubSeq(acc, 1, Len(acc) - 1))
    ELSE CleanElems(Tail(elems), Append(acc, elems[1]))

RECURSIVE JoinRooted(_)
JoinRooted(elems) ==
    IF elems = <<>> THEN <<>>
    ELSE <<"/">> \o elems[1] \o JoinRooted(Tail(elems))

\* The working directory of the host process.
Cwd == <<"/", "w">>

\* filepath.Abs: Clean(path) for a rooted path, Clean(Join(cwd, path)) otherwise.
Abs(path) ==
    LET rooted == IF path # <<>> /\ path[1] = "/" THEN path ELSE Cwd \o <<"/">> \o path
        elems  == CleanElems(SplitPath(rooted, <<>>), <<>>)
    IN  IF elems = <<>> THEN <<"/">> ELSE JoinRooted(elems)

\* filepath.Base of a cleaned absolute path.
Base(path) ==
    LET elems == SplitPath(path, <<>>)
    IN  IF path = <<>> THEN <<".">>
        ELSE IF elems = <<>> THEN <<"/">>
        ELSE elems[Len(elems)]

\* The project paths of the model.
PathZ4  == <<"/","z","4","/","x">>
PathZ5  == <<"/","z","5","/","x">>
PathZ4S == <<"/","z","4","/","x","/">>
PathApp == <<"/","h","/","M","y","_","A","p","p">>
PathRoot == <<"/">>

Paths == {PathZ4, PathZ5, PathZ4S, PathApp, PathRoot}

\* crypto/sha1: the first two bytes of the digest of the paths of the model.
sha1Table ==
    {<<Chars("/z4/x"), 193, 40>>,
     <<Chars("/z4/my-project"), 180, 180>>,
     <<Chars("/z4/My Cool App"), 199, 255>>,
     <<Chars("/z4/project@2024!"), 224, 120>>,
     <<Chars("/z4/123-project"), 122, 215>>,
     <<Chars("/z4/project-") \o <<"U+03B1">> \o Chars("-") \o <<"U+03B1">>, 227, 225>>,
     <<Chars("/z4/") \o Repeat("a", 40), 142, 18>>,
     <<Chars("/z4/my_project_name"), 9, 45>>,
     <<Chars("/z4/my---project"), 209, 78>>,
     <<Chars("/z4/my-project-"), 184, 17>>,
     <<Chars("/z4/@@@"), 34, 202>>,
     <<Chars("/z4/_"), 100, 45>>,
     <<Chars("/z4/.git"), 195, 96>>,
     <<Chars("/z4/caf") \o <<"U+00E9">> \o Chars("-project"), 133, 162>>,
     <<Chars("/z4/My_App"), 242, 20>>,
     <<Chars("/z4/9"), 216, 111>>,
     <<Chars("/z4/") \o Repeat("a", 26) \o Chars("-b"), 183, 91>>,
     <<Chars("/z4/") \o Repeat("a", 27) \o Chars("b"), 112, 67>>,
     <<Chars("/z4/-") \o Repeat("a", 27), 44, 202>>,
     <<Chars("/z4/") \o Repeat("B", 28), 83, 148>>,
     <<Chars("/z4/1") \o Repeat("a", 26), 195, 77>>,
     <<Chars("/z4/") \o <<"U+03B1">>, 192, 17>>,
     <<Chars("/z4/a.b"), 212, 204>>,
     <<Chars("/z4/--x--"), 61, 18>>,
     <<Chars("/z4/") \o Repeat("a", 23) \o Chars("-1"), 105, 96>>,
     <<Chars("/Users/alice/x"), 25, 180>>,
     <<Chars("/Users/alice/my-project"), 168, 104>>,
     <<Chars("/Users/alice/My Cool App"), 196, 254>>,
     <<Chars("/Users/alice/project@2024!"), 211, 94>>,
     <<Chars("/Users/alice/123-project"), 135, 237>>,
     <<Chars("/Users/alice/project-") \o <<"U+03B1">> \o Chars("-") \o <<"U+03B1">>, 210, 71>>,
     <<Chars("/Users/alice/") \o Repeat("a", 40), 135, 53>>,
     <<Chars("/Users/alice/my_project_name"), 41, 141>>,
     <<Chars("/Users/alice/my---project"), 123, 153>>,
     <<Chars("/Users/alice/my-project-"), 66, 31>>,
     <<Chars("/Users/alice/@@@"), 153, 199>>,
     <<Chars("/Users/alice/_"), 51, 103>>,
     <<Chars("/Users/alice/.git"), 64, 101>>,
     <<Chars("/Users/alice/caf") \o <<"U+00E9">> \o Chars("-project"), 134, 182>>,
     <<Chars("/Users/alice/My_App"), 134, 0>>,
     <<Chars("/Users/alice/9"), 120, 206>>,
     <<Chars("/Users/alice/") \o Repeat("a", 26) \o Chars("-b"), 56, 58>>,
     <<Chars("/Users/alice/") \o Repeat("a", 27) \o Chars("b"), 42, 94>>,
     <<Chars("/Users/alice/-") \o Repeat("a", 27), 164, 106>>,
     <<Chars("/Users/alice/") \o Repeat("B", 28), 161, 94>>,
     <<Chars("/Users/alice/1") \o Repeat("a", 26), 40, 73>>,
     <<Chars("/Users/alice/") \o <<"U+03B1">>, 29, 218>>,
     <<Chars("/Users/alice/a.b"), 185, 79>>,
     <<Chars("/Users/alice/--x--"), 76, 85>>,
     <<Chars("/Users/alice/") \o Repeat("a", 23) \o Chars("-1"), 112, 148>>,
     <<Chars("/Users/bob/x"), 122, 25>>,
     <<Chars("/Users/bob/my-project"), 109, 219>>,
     <<Chars("/Users/bob/My Cool App"), 42, 94>>,
     <<Chars("/Users/bob/project@2024!"), 33, 214>>,
     <<Chars("/Users/bob/123-project"), 253, 183>>,
     <<Chars("/Users/bob/project-") \o <<"U+03B1">> \o Chars("-") \o <<"U+03B1">>, 199, 179>>,
     <<Chars("/Users/bob/") \o Repeat("a", 40), 148, 245>>,
     <<Chars("/Users/bob/my_project_name"), 229, 226>>,
     <<Chars("/Users/bob/my---project"), 184, 38>>,
     <<Chars("/Users/bob/my-project-"), 0, 17>>,
     <<Chars("/Users/bob/@@@"), 70, 65>>,
     <<Chars("/Users/bob/_"), 101, 182>>,
     <<Chars("/Users/bob/.git"), 189, 241>>,
     <<Chars("/Users/bob/caf") \o <<"U+00E9">> \o Chars("-project"), 105, 160>>,
     <<Chars("/Users/bob/My_App"), 18, 26>>,
     <<Chars("/Users/bob/9"), 98, 207>>,
     <<Chars("/Users/bob/") \o Repeat("a", 26) \o Chars("-b"), 168, 193>>,
     <<Chars("/Users/bob/") \o Repeat("a", 27) \o Chars("b"), 33, 118>>,
     <<Chars("/Users/bob/-") \o Repeat("a", 27), 9, 209>>,
     <<Chars("/Users/bob/") \o Repeat("B", 28), 188, 53>>,
     <<Chars("/Users/bob/1") \o Repeat("a", 26), 46, 56>>,
     <<Chars("/Users/bob/") \o <<"U+03B1">>, 37, 142>>,
     <<Chars("/Users/bob/a.b"), 38, 85>>,
     <<Chars("/Users/bob/--x--"), 214, 116>>,
     <<Chars("/Users/bob/") \o Repeat("a", 23) \o Chars("-1"), 129, 246>>,
     <<Chars("/z4/x/"), 14, 103>>,
     <<Chars("/z4/./x"), 71, 185>>,
     <<Chars("/z4/y/../x"), 64, 21>>,
     <<Chars("/z4//x"), 45, 58>>,
     <<Chars("/Users/alice/my-project/"), 42, 253>>,
     <<Chars("/Users/bob/../alice/my-project"), 171, 12>>,
     <<Chars("/"), 66, 9>>,
     <<Chars("//"), 235, 191>>,
     <<Chars("/."), 106, 37>>,
     <<Chars("/z4/.."), 251, 147>>,
     <<Chars("/z5/x"), 193, 40>>,
     <<Chars("/h/My_App"), 139, 84>>}

sha1Sum(path) == CHOOSE t \in sha1Table : t[1] = path

HexDigits == Chars("0123456789abcdef")

\* fmt.Sprintf("%x", ...) of one byte: two lowercase hex digits.
HexByte(b) == <<HexDigits[(b \div 16) + 1], HexDigits[(b % 16) + 1]>>

\* pathHash: the first two bytes of SHA-1 over the path, as 4 hex digits.
pathHash(path) == Then(sha1Sum(path), LAMBDA sum : HexByte(sum[2]) \o HexByte(sum[3]))

NoName == <<>>

\* GenerateName hashing the path as given instead of the absolute path.
GenerateName_HashOfInput(projectPath) ==
    Then(Abs(projectPath),
         LAMBDA absPath :
           Then(Base(absPath),
                LAMBDA basename :
                  IF basename = <<".">> \/ basename = <<"/">>
                  THEN [ok |-> FALSE, name |-> NoName]
                  ELSE Then(sanitizeBasename(basename),
                         LAMBDA sanitized :
                           IF sanitized = <<>> THEN [ok |-> FALSE, name |-> NoName]
                           ELSE Then(sanitized \o <<"-">> \o pathHash(projectPath),
                                  LAMBDA name :
                                    IF ~IsValidName(name) THEN [ok |-> FALSE, name |-> NoName]
                                    ELSE [ok |-> TRUE, name |-> name]))))

\* GenerateName: [ok, name]; ok = FALSE is the error return.
GenerateName(projectPath) ==
    Then(Abs(projectPath),
         LAMBDA absPath :
           Then(Base(absPath),
                LAMBDA basename :
                  IF basename = <<".">> \/ basename = <<"/">>
                  THEN [ok |-> FALSE, name |-> NoName]
                  ELSE Then(sanitizeBasename(basename),
                         LAMBDA sanitized :
                           IF sanitized = <<>> THEN [ok |-> FALSE, name |-> NoName]
                           ELSE Then(sanitized \o <<"-">> \o pathHash(absPath),
                                  LAMBDA name :
                                    IF ~IsValidName(name) THEN [ok |-> FALSE, name |-> NoName]
                                    ELSE [ok |-> TRUE, name |-> name]))))


\* filepath.Abs and GenerateName on the model's paths, computed once.
AbsOf == [p \in Paths |-> Abs(p)]

NameOf == [p \in Paths |-> GenerateName(p)]

Names == {gen.name : gen \in {r \in {NameOf[p] : p \in Paths} : r.ok}}

\* IsValidEnvironmentName: ^[a-z][a-z0-9-]*-[0-9a-f]{4}$
IsValidEnvironmentName(name) ==
    /\ Len(name) >= 6
    /\ name[1] \in Range(LowerLetters)
    /\ \A i \in DOMAIN name : name[i] \in Range(LowerLetters) \cup Digits \cup {"-"}
    /\ name[Len(name) - 4] = "-"
    /\ \A i \in (Len(name) - 3)..Len(name) : name[i] \in Range(HexDigits)

\* The paths GenerateName is applied to: every basename under every parent,
\* paths that are not clean, and paths that name the root.
NamingParents == {Chars("/z4"), Chars("/Users/alice"), Chars("/Users/bob")}

NamingBasenames ==
    {Chars("x"),
     Chars("my-project"),
     Chars("My Cool App"),
     Chars("project@2024!"),
     Chars("123-project"),
     Chars("project-") \o <<"U+03B1">> \o Chars("-") \o <<"U+03B1">>,
     Repeat("a", 40),
     Chars("my_project_name"),
     Chars("my---project"),
     Chars("my-project-"),
     Chars("@@@"),
     Chars("_"),
     Chars(".git"),
     Chars("caf") \o <<"U+00E9">> \o Chars("-project"),
     Chars("My_App"),
     Chars("9"),
     Repeat("a", 26) \o Chars("-b"),
     Repeat("a", 27) \o Chars("b"),
     Chars("-") \o Repeat("a", 27),
     Repeat("B", 28),
     Chars("1") \o Repeat("a", 26),
     <<"U+03B1">>,
     Chars("a.b"),
     Chars("--x--"),
     Repeat("a", 23) \o Chars("-1")}

UncleanPaths ==
    {Chars("/z4/x/"),
     Chars("/z4/./x"),
     Chars("/z4/y/../x"),
     Chars("/z4//x"),
     Chars("/Users/alice/my-project/"),
     Chars("/Users/bob/../alice/my-project")}

RootPaths == {Chars("/"), Chars("//"), Chars("/."), Chars("/z4/..")}

NamingPaths ==
    {par \o <<"/">> \o b : par \in NamingParents, b \in NamingBasenames}
      \cup UncleanPaths \cup RootPaths

NamingAbsOf == [p \in NamingPaths |-> Abs(p)]

NamingNameOf == [p \in NamingPaths |-> GenerateName(p)]

(***************************************************************************)
(* Bounds                                                                  *)
(***************************************************************************)

\* Process ids handed out by the guest to namespace holders: 1..MaxPid.
MaxPid == 2

(***************************************************************************)
(* State                                                                   *)
(***************************************************************************)

VARIABLES
    users,      \* guest user accounts (/etc/passwd)
    envDirs,    \* names n with a directory /envs/<n>/
    pidFile,    \* n -> contents of /envs/<n>/namespace.pid, 0 when the file is absent
    procs,      \* live root-owned namespace holders (sudo unshare ... sleep infinity)
    mounts,     \* pid -> sources bind-mounted at /workspace in the holder's mount namespace
    nextPid,    \* next process id the guest hands out to a holder
    userProcs,  \* names n with a live process owned by user n (started from a shell session)
    sshUser,    \* the guest login of the SSH connection (ssh config User): "root" or not
    connected,  \* Manager.sshClient is set and connected
    last,       \* the controller call that has just returned: operation, argument,
                \* results and the commands it issued; NoCall once the caller took them
    onlyCreates,\* history: every call so far was a successful Create, an Exists or a List
    instances,  \* backend (limactl): instance name -> status, "Absent" when there is none
    vmLast,     \* the VM controller call that has just returned, NoVMCall once taken
    client,     \* ssh.Client.client: "nil", or a transport that is "open", "lost" or "closed"
    terminal,   \* the mode of the host terminal on stdin
    lingering,  \* the workers of ExecContext calls that returned on their context
    ctxCall,    \* the ExecContext call in progress: its context, its remote command
    sshLast,    \* the ssh.Client call that has just returned, NoSSHCall once taken
    nameCall,   \* the last call of a naming function: its argument and its result
    race        \* two controllers in Create for one project path: where each one is

vmVars == <<instances, vmLast>>

sshVars == <<client, terminal, ctxCall, lingering, sshLast>>

nameVars == <<nameCall>>

raceVars == <<race>>

vars == <<users, envDirs, pidFile, procs, mounts, nextPid, userProcs, sshUser, connected,
          last, onlyCreates, vmVars, sshVars, nameVars, raceVars>>

\* The variables of the environment controller and its guest.
envVars == <<users, envDirs, pidFile, procs, mounts, nextPid, userProcs, sshUser, connected,
             last, onlyCreates>>

\* The name of the controller's instance, and another instance of the same backend.
DefaultInstanceName == "llima-box"

InstNames == {DefaultInstanceName, "dev"}

\* JSON documents on the backend's standard output, by what they are.
Doc(kind, name, status, elems) ==
    [kind |-> kind, name |-> name, status |-> status, elems |-> elems]

NoDoc == Doc("none", "", "", <<>>)

NoVMCall == [op |-> "none", ok |-> TRUE, err |-> <<>>, calls |-> <<>>, oks |-> <<>>,
             force |-> FALSE,
             doc |-> NoDoc, list |-> <<>>, answer |-> FALSE, clean |-> TRUE]

\* No instance yet, no VM controller call made.
VMInit ==
    /\ instances = [n \in InstNames |-> "Absent"]
    /\ vmLast = NoVMCall

NoSSHCall == [op |-> "none", ok |-> TRUE, err |-> <<>>, out |-> "", was |-> "nil",
              keysOK |-> TRUE, auth |-> <<>>, in |-> <<>>, dials |-> 0, runs |-> 0, tries |-> <<>>, errs |-> <<>>,
              sleeps |-> <<>>, config |-> <<>>, modes |-> <<>>, tty |-> <<>>,
              panicked |-> FALSE, branch |-> "", signalled |-> FALSE]

NoCtxCall == [pc |-> "idle", ctx |-> "live", remote |-> "none", done |-> "empty",
              res |-> "none", output |-> "", dials |-> 0, was |-> "nil"]

\* At most this many workers of earlier calls are still about when a call starts.
MaxLingering == 1

\* The workers left behind by calls that returned on their context: each is
\* still in the remote call ("running") or back from it and at its send
\* ("returned").
Workers == 1..(MaxLingering + 1)

FreeWorkers == {w \in Workers : lingering[w] = "none"}

NoWorkers == [w \in Workers |-> "none"]

SSHInit ==
    /\ client = "nil"
    /\ terminal = "cooked"
    /\ ctxCall = NoCtxCall
    /\ lingering = NoWorkers
    /\ sshLast = NoSSHCall

NoNameCall == [op |-> "none", arg |-> <<>>, ok |-> TRUE, name |-> <<>>]

\* Two controllers, each with its own Manager and connection, over one guest.
Racers == {1, 2}

\* A controller that has not called Create: pc is the remote command its Create
\* issues next, pid the namespacePID it read from the PID file.
NoRacer == [pc |-> "idle", plan |-> <<>>, dies |-> FALSE, pid |-> 0, ok |-> FALSE,
            err |-> "", exists |-> FALSE]

\* The logins the SSH configuration of the instance can name.
SSHUsers == {"root", "lima"}

Pids == 1..MaxPid

Guest == [users |-> users, envDirs |-> envDirs, pidFile |-> pidFile, procs |-> procs,
          mounts |-> mounts, nextPid |-> nextPid, userProcs |-> userProcs,
          sshUser |-> sshUser]

SetGuest(g) ==
    /\ users' = g.users
    /\ envDirs' = g.envDirs
    /\ pidFile' = g.pidFile
    /\ procs' = g.procs
    /\ mounts' = g.mounts
    /\ nextPid' = g.nextPid
    /\ userProcs' = g.userProcs
    /\ sshUser' = g.sshUser

(***************************************************************************)
(* The remote channel as the controller sees it (ssh.Client.ExecContext):  *)
(* a command either runs and reports its exit status ("ok"), is never      *)
(* started because the session fails or the context is already cancelled   *)
(* ("lost"), or runs while the caller gets an error, the context being     *)
(* cancelled or the connection dropping before the status arrives ("late").*)
(***************************************************************************)

Outcomes == {"ok", "lost", "late"}

Cmds == {"probe", "useradd", "mkdir", "unshare", "cat", "kill0", "mount",
         "pkill", "userdel", "find"}

NoFaults == [c \in Cmds |-> "ok"]

\* The channel's outcome for each command of one call.  Provisioning ends at
\* its first failing command, so one outcome other than "ok" among the
\* provisioning commands covers every run of Create; the probe and the
\* rollback run apart from them.  A late failure of a command that changes
\* nothing is a lost one.
ProvisioningCmds == {"useradd", "mkdir", "unshare", "cat", "kill0", "mount"}

CreatePlans ==
    {[c \in Cmds |-> IF c = "probe" THEN pr
                     ELSE IF c = "userdel" THEN ud
                     ELSE IF c = st THEN k ELSE "ok"] :
        pr \in {"ok", "lost"}, ud \in {"ok", "lost"},
        st \in ProvisioningCmds \cup {"none"}, k \in {"lost", "late"}}

ExistsPlans == {[NoFaults EXCEPT !["probe"] = pr] : pr \in {"ok", "lost"}}

DeletePlans ==
    {[NoFaults EXCEPT !["probe"] = pr, !["pkill"] = pk, !["userdel"] = ud] :
        pr \in {"ok", "lost"}, pk \in {"ok", "lost"}, ud \in Outcomes}

ListPlans == {[NoFaults EXCEPT !["find"] = f] : f \in {"ok", "lost"}}

DeleteAllPlans == {[d EXCEPT !["find"] = f] : d \in DeletePlans, f \in {"ok", "lost"}}

\* r is what the command does when it runs: [g, ok, out].
ExecContext(outcome, g, r) ==
    CASE outcome = "ok"   -> r
      [] outcome = "lost" -> [g |-> g, ok |-> FALSE, out |-> 0]
      [] outcome = "late" -> [r EXCEPT !.ok = FALSE]

(***************************************************************************)
(* The guest commands the controller composes                              *)
(***************************************************************************)

\* The probe made of `id <n>` alone.
CmdProbe_UserOnly(g, n) == [g |-> g, out |-> 0, ok |-> n \in g.users]

\* id <n> && [ -e /envs/<n>/namespace.pid ] && kill -0 $(cat /envs/<n>/namespace.pid)
\* The command runs without sudo: kill -0 on the root-owned holder is refused
\* (EPERM) unless the SSH login is root itself.
CmdProbe(g, n) ==
    [g |-> g, out |-> 0,
     ok |-> /\ n \in g.users
            /\ g.pidFile[n] # 0
            /\ g.pidFile[n] \in g.procs
            /\ g.sshUser = "root"]

\* useradd accepting a name that is already an account.
CmdUseradd_Existing(g, n) ==
    [g |-> [g EXCEPT !.users = @ \cup {n}], ok |-> TRUE, out |-> 0]

\* sudo useradd -m -s /bin/bash <n>
CmdUseradd(g, n) ==
    IF n \in g.users THEN [g |-> g, ok |-> FALSE, out |-> 0]
    ELSE [g |-> [g EXCEPT !.users = @ \cup {n}], ok |-> TRUE, out |-> 0]

\* sudo mkdir -p /envs/<n>
CmdMkdir(g, n) == [g |-> [g EXCEPT !.envDirs = @ \cup {n}], ok |-> TRUE, out |-> 0]

\* sudo unshare --mount --pid --fork --propagation private bash -c 'sleep infinity' ... &
\*   echo $! | sudo tee /envs/<n>/namespace.pid
\* The holder runs as root in a fresh mount namespace; the status is tee's.
CmdUnshare(g, n, dies) ==
    LET pid == g.nextPid
        started == [g EXCEPT !.nextPid = @ + 1,
                             !.procs = IF dies THEN @ ELSE @ \cup {pid},
                             !.mounts[pid] = <<>>]
    IN  IF n \in g.envDirs
        THEN [g |-> [started EXCEPT !.pidFile[n] = pid], ok |-> TRUE, out |-> 0]
        ELSE [g |-> started, ok |-> FALSE, out |-> 0]

\* sudo cat /envs/<n>/namespace.pid
CmdCat(g, n) == [g |-> g, ok |-> g.pidFile[n] # 0, out |-> g.pidFile[n]]

\* sudo kill -0 <pid>
CmdKill0(g, pid) == [g |-> g, ok |-> pid \in g.procs, out |-> 0]

\* sudo nsenter --mount --target=<pid> -- bash -c
\*   'sudo mkdir -p /workspace && sudo mount --bind <path> /workspace && sudo chown ...'
CmdMount(g, pid, path) ==
    IF pid \in g.procs
    THEN [g |-> [g EXCEPT !.mounts[pid] = Append(@, path)], ok |-> TRUE, out |-> 0]
    ELSE [g |-> g, ok |-> FALSE, out |-> 0]

\* sudo pkill -u <n> || true : ends the processes owned by user n.
CmdPkill(g, n) == [g |-> [g EXCEPT !.userProcs = @ \ {n}], ok |-> TRUE, out |-> 0]

\* sudo userdel -r <n> : refuses a missing user and a user with running processes.
CmdUserdel(g, n) ==
    IF n \in g.users /\ n \notin g.userProcs
    THEN [g |-> [g EXCEPT !.users = @ \ {n}], ok |-> TRUE, out |-> 0]
    ELSE [g |-> g, ok |-> FALSE, out |-> 0]

\* The orders in which find can print a set of directories.
RECURSIVE Orders(_)
Orders(S) ==
    IF S = {} THEN {<<>>}
    ELSE UNION {{<<n>> \o o : o \in Orders(S \ {n})} : n \in S}

\* find /envs/. -type d -maxdepth 1 -mindepth 1 | xargs basename, for one order
\* of find's output.  xargs runs basename once with every directory as an
\* operand: no operand and three or more operands are errors (exit 123), one
\* operand prints its name, two operands print the first (the second is SUFFIX).
CmdFind(g, order) ==
    IF Len(order) = 1 \/ Len(order) = 2
    THEN [g |-> g, ok |-> TRUE, out |-> <<order[1]>>]
    ELSE [g |-> g, ok |-> FALSE, out |-> <<>>]


(***************************************************************************)
(* Manager (pkg/env/manager.go).  Every operation returns the guest it     *)
(* leaves, its results and the remote commands it issued, in order, each   *)
(* with the name it concerns and whether the caller saw it succeed.        *)
(***************************************************************************)

NoEnv == [name |-> NoName, path |-> <<>>]

Issued(tag, name, e) == << <<tag, name, e.ok>> >>

\* ensureSSH: nothing to do on a connected client; otherwise EnsureRunning and
\* ConnectWithRetry must both succeed (sshUp).
ensureSSH(isConnected, sshUp) == isConnected \/ sshUp

\* Exists: err == nil of the probe command is the answer, whatever the error was.
Exists(g, plan, envName) ==
    LET e == ExecContext(plan["probe"], g, CmdProbe(g, envName))
    IN  [g |-> e.g, exists |-> e.ok, cmds |-> Issued("probe", envName, e)]

createUser(g, plan, username) ==
    LET e == ExecContext(plan["useradd"], g, CmdUseradd(g, username))
    IN  [g |-> e.g, ok |-> e.ok, cmds |-> Issued("useradd", username, e)]

deleteUser(g, plan, username) ==
    LET e == ExecContext(plan["userdel"], g, CmdUserdel(g, username))
    IN  [g |-> e.g, ok |-> e.ok, cmds |-> Issued("userdel", username, e)]

killNamespaceProcesses(g, plan, username) ==
    LET e == ExecContext(plan["pkill"], g, CmdPkill(g, username))
    IN  [g |-> e.g, ok |-> e.ok, cmds |-> Issued("pkill", username, e)]

setupNamespaceFilesystem(g, plan, env, namespacePID) ==
    LET e == ExecContext(plan["mount"], g, CmdMount(g, namespacePID, env.path))
    IN  [g |-> e.g, ok |-> e.ok, cmds |-> Issued("mount", env.name, e)]

\* createNamespace going on to the bind mount when kill -0 failed.
createNamespace_IgnoreDeadHolder(g, plan, dies, env) ==
    Then(ExecContext(plan["mkdir"], g, CmdMkdir(g, env.name)),
         LAMBDA e1 :
           IF ~e1.ok
           THEN [g |-> e1.g, ok |-> FALSE, cmds |-> Issued("mkdir", env.name, e1)]
           ELSE Then(ExecContext(plan["unshare"], e1.g, CmdUnshare(e1.g, env.name, dies)),
             LAMBDA e2 :
               IF ~e2.ok
               THEN [g |-> e2.g, ok |-> FALSE,
                     cmds |-> Issued("mkdir", env.name, e1) \o Issued("unshare", env.name, e2)]
               ELSE Then(ExecContext(plan["cat"], e2.g, CmdCat(e2.g, env.name)),
                 LAMBDA e3 :
                   IF ~e3.ok
                   THEN [g |-> e3.g, ok |-> FALSE,
                         cmds |-> Issued("mkdir", env.name, e1)
                                    \o Issued("unshare", env.name, e2)
                                    \o Issued("cat", env.name, e3)]
                   ELSE Then(ExecContext(plan["kill0"], e3.g, CmdKill0(e3.g, e3.out)),
                     LAMBDA e4 :
                      Then(
                          setupNamespaceFilesystem(e4.g, plan, env, e3.out),
                          LAMBDA e5 :
                            [g |-> e5.g, ok |-> e5.ok,
                             cmds |-> Issued("mkdir", env.name, e1) \o Issued("unshare", env.name, e2)
                                        \o Issued("cat", env.name, e3)
                                        \o Issued("kill0", env.name, e4) \o e5.cmds])))))

createNamespace(g, plan, dies, env) ==
    Then(ExecContext(plan["mkdir"], g, CmdMkdir(g, env.name)),
         LAMBDA e1 :
           IF ~e1.ok
           THEN [g |-> e1.g, ok |-> FALSE, cmds |-> Issued("mkdir", env.name, e1)]
           ELSE Then(ExecContext(plan["unshare"], e1.g, CmdUnshare(e1.g, env.name, dies)),
             LAMBDA e2 :
               IF ~e2.ok
               THEN [g |-> e2.g, ok |-> FALSE,
                     cmds |-> Issued("mkdir", env.name, e1) \o Issued("unshare", env.name, e2)]
               ELSE Then(ExecContext(plan["cat"], e2.g, CmdCat(e2.g, env.name)),
                 LAMBDA e3 :
                   IF ~e3.ok
                   THEN [g |-> e3.g, ok |-> FALSE,
                         cmds |-> Issued("mkdir", env.name, e1)
                                    \o Issued("unshare", env.name, e2)
                                    \o Issued("cat", env.name, e3)]
                   ELSE Then(ExecContext(plan["kill0"], e3.g, CmdKill0(e3.g, e3.out)),
                     LAMBDA e4 :
                      IF ~e4.ok
                      THEN [g |-> e4.g, ok |-> FALSE,
                            cmds |-> Issued("mkdir", env.name, e1) \o Issued("unshare", env.name, e2)
                                       \o Issued("cat", env.name, e3)
                                       \o Issued("kill0", env.name, e4)]
                      ELSE Then(
                               setupNamespaceFilesystem(e4.g, plan, env, e3.out),
                               LAMBDA e5 :
                                 [g |-> e5.g, ok |-> e5.ok,
                                  cmds |-> Issued("mkdir", env.name, e1) \o Issued("unshare", env.name, e2)
                                             \o Issued("cat", env.name, e3)
                                             \o Issued("kill0", env.name, e4) \o e5.cmds])))))

\* Provision without the userdel after a failed createNamespace.
Provision_NoRollback(ex, plan, dies, env) ==
    Then(createUser(ex.g, plan, env.name),
         LAMBDA cu :
           IF ~cu.ok
           THEN [g |-> cu.g, ok |-> FALSE, err |-> "useradd", exists |-> ex.exists,
                 env |-> NoEnv, cmds |-> ex.cmds \o cu.cmds]
           ELSE Then(createNamespace(cu.g, plan, dies, env),
                     LAMBDA cn :
                       IF ~cn.ok
                       THEN [g |-> cn.g, ok |-> FALSE, err |-> "namespace",
                             exists |-> ex.exists, env |-> NoEnv,
                             cmds |-> ex.cmds \o cu.cmds \o cn.cmds]
                       ELSE [g |-> cn.g, ok |-> TRUE, err |-> "", exists |-> ex.exists,
                             env |-> env, cmds |-> ex.cmds \o cu.cmds \o cn.cmds]))

\* Create from "Create user account" on: the user, the namespace, and the
\* best-effort userdel when the namespace fails.  ex is the result of the probe.
Provision(ex, plan, dies, env) ==
    Then(createUser(ex.g, plan, env.name),
         LAMBDA cu :
           IF ~cu.ok
           THEN [g |-> cu.g, ok |-> FALSE, err |-> "useradd", exists |-> ex.exists,
                 env |-> NoEnv, cmds |-> ex.cmds \o cu.cmds]
           ELSE Then(createNamespace(cu.g, plan, dies, env),
                     LAMBDA cn :
                       IF ~cn.ok
                       THEN Then(deleteUser(cn.g, plan, env.name),
                                 LAMBDA du :
                                   [g |-> du.g, ok |-> FALSE, err |-> "namespace",
                                    exists |-> ex.exists, env |-> NoEnv,
                                    cmds |-> ex.cmds \o cu.cmds \o cn.cmds \o du.cmds])
                       ELSE [g |-> cn.g, ok |-> TRUE, err |-> "", exists |-> ex.exists,
                             env |-> env, cmds |-> ex.cmds \o cu.cmds \o cn.cmds]))

\* Create without the early return on an existing environment.
Create_AlwaysProvision(g, plan, dies, isConnected, sshUp, projectPath) ==
    Then(NameOf[AbsOf[projectPath]],
         LAMBDA gen :
           IF ~gen.ok
           THEN [g |-> g, ok |-> FALSE, err |-> "name", exists |-> FALSE, env |-> NoEnv,
                 cmds |-> <<>>]
           ELSE IF ~ensureSSH(isConnected, sshUp)
           THEN [g |-> g, ok |-> FALSE, err |-> "ssh", exists |-> FALSE, env |-> NoEnv,
                 cmds |-> <<>>]
           ELSE Then(Exists(g, plan, gen.name),
               LAMBDA ex :
                 Provision(ex, plan, dies,
                           [name |-> gen.name, path |-> AbsOf[projectPath]])))

Create(g, plan, dies, isConnected, sshUp, projectPath) ==
    Then(NameOf[AbsOf[projectPath]],
         LAMBDA gen :
           IF ~gen.ok
           THEN [g |-> g, ok |-> FALSE, err |-> "name", exists |-> FALSE, env |-> NoEnv,
                 cmds |-> <<>>]
           ELSE IF ~ensureSSH(isConnected, sshUp)
           THEN [g |-> g, ok |-> FALSE, err |-> "ssh", exists |-> FALSE, env |-> NoEnv,
                 cmds |-> <<>>]
           ELSE Then(Exists(g, plan, gen.name),
               LAMBDA ex :
                 IF ex.exists
                 THEN [g |-> ex.g, ok |-> TRUE, err |-> "", exists |-> TRUE,
                       env |-> [name |-> gen.name, path |-> AbsOf[projectPath]],
                       cmds |-> ex.cmds]
                 ELSE Provision(ex, plan, dies,
                                [name |-> gen.name, path |-> AbsOf[projectPath]])))

\* List: one Environment with empty project path per non-empty output line.
List(g, plan, order, isConnected, sshUp) ==
    LET e == ExecContext(plan["find"], g, CmdFind(g, order))
    IN  IF ~ensureSSH(isConnected, sshUp)
        THEN [g |-> g, ok |-> FALSE, err |-> "ssh", envs |-> <<>>, cmds |-> <<>>]
        ELSE IF ~e.ok
        THEN [g |-> e.g, ok |-> FALSE, err |-> "list", envs |-> <<>>,
              cmds |-> Issued("find", NoName, e)]
        ELSE [g |-> e.g, ok |-> TRUE, err |-> "",
              envs |-> [i \in DOMAIN e.out |-> [name |-> e.out[i], path |-> <<>>]],
              cmds |-> Issued("find", NoName, e)]

\* Delete without the check that the environment exists.
Delete_NoExistsCheck(g, plan, isConnected, sshUp, envName) ==
    LET ex == Exists(g, plan, envName)
        kp == killNamespaceProcesses(ex.g, plan, envName)
        du == deleteUser(kp.g, plan, envName)
    IN  IF ~ensureSSH(isConnected, sshUp)
        THEN [g |-> g, ok |-> FALSE, err |-> "ssh", exists |-> FALSE, cmds |-> <<>>]
        ELSE [g |-> du.g, ok |-> du.ok, err |-> IF du.ok THEN "" ELSE "userdel",
              exists |-> ex.exists, cmds |-> ex.cmds \o kp.cmds \o du.cmds]

\* Delete returning at a failed pkill.
Delete_PkillFatal(g, plan, isConnected, sshUp, envName) ==
    LET ex == Exists(g, plan, envName)
        kp == killNamespaceProcesses(ex.g, plan, envName)
        du == deleteUser(kp.g, plan, envName)
    IN  IF ~ensureSSH(isConnected, sshUp)
        THEN [g |-> g, ok |-> FALSE, err |-> "ssh", exists |-> FALSE, cmds |-> <<>>]
        ELSE IF ~ex.exists
        THEN [g |-> ex.g, ok |-> FALSE, err |-> "notfound", exists |-> FALSE,
              cmds |-> ex.cmds]
        ELSE IF ~kp.ok
        THEN [g |-> kp.g, ok |-> FALSE, err |-> "pkill", exists |-> TRUE,
              cmds |-> ex.cmds \o kp.cmds]
        ELSE [g |-> du.g, ok |-> du.ok, err |-> IF du.ok THEN "" ELSE "userdel",
              exists |-> TRUE, cmds |-> ex.cmds \o kp.cmds \o du.cmds]

Delete(g, plan, isConnected, sshUp, envName) ==
    LET ex == Exists(g, plan, envName)
        kp == killNamespaceProcesses(ex.g, plan, envName)
        du == deleteUser(kp.g, plan, envName)
    IN  IF ~ensureSSH(isConnected, sshUp)
        THEN [g |-> g, ok |-> FALSE, err |-> "ssh", exists |-> FALSE, cmds |-> <<>>]
        ELSE IF ~ex.exists
        THEN [g |-> ex.g, ok |-> FALSE, err |-> "notfound", exists |-> FALSE,
              cmds |-> ex.cmds]
        ELSE [g |-> du.g, ok |-> du.ok, err |-> IF du.ok THEN "" ELSE "userdel",
              exists |-> TRUE, cmds |-> ex.cmds \o kp.cmds \o du.cmds]

\* The loop of DeleteAll leaving at the first Delete that fails.
DeleteEach_StopAtFailure(envs, plan, acc) ==
    IF envs = <<>> THEN acc
    ELSE LET d == Delete(acc.g, plan, TRUE, TRUE, envs[1].name)
         IN  [g |-> d.g,
              failed |-> IF d.ok THEN acc.failed ELSE Append(acc.failed, envs[1].name),
              cmds |-> acc.cmds \o d.cmds]

\* The loop of DeleteAll over the listed environments: acc carries the guest,
\* the names whose Delete failed and the commands issued so far.
RECURSIVE DeleteEach(_, _, _)
DeleteEach(envs, plan, acc) ==
    IF envs = <<>> THEN acc
    ELSE LET d == Delete(acc.g, plan, TRUE, TRUE, envs[1].name)
         IN  DeleteEach(Tail(envs), plan,
                        [g |-> d.g,
                         failed |-> IF d.ok THEN acc.failed
                                    ELSE Append(acc.failed, envs[1].name),
                         cmds |-> acc.cmds \o d.cmds])

DeleteAll(g, plan, order, isConnected, sshUp) ==
    LET l == List(g, plan, order, isConnected, sshUp)
        r == DeleteEach(l.envs, plan, [g |-> l.g, failed |-> <<>>, cmds |-> l.cmds])
    IN  IF ~l.ok
        THEN [g |-> l.g, ok |-> FALSE, err |-> "list", envs |-> <<>>, failed |-> <<>>,
              cmds |-> l.cmds]
        ELSE [g |-> r.g, ok |-> r.failed = <<>>,
              err |-> IF r.failed = <<>> THEN "" ELSE "some",
              envs |-> l.envs, failed |-> r.failed, cmds |-> r.cmds]

(***************************************************************************)
(* EnterNamespace.  A command line is a sequence of pieces: the quote ',   *)
(* the blank, the separators ; and &&, and pieces of words.  An argument   *)
(* of the caller's command is a sequence of pieces as well, so that it can *)
(* hold blanks and quotes.                                                 *)
(***************************************************************************)

RECURSIVE Str(_)
Str(seq) == IF seq = <<>> THEN "" ELSE seq[1] \o Str(Tail(seq))

\* strings.Join(cmd, " ")
RECURSIVE Join(_)
Join(cmd) ==
    IF cmd = <<>> THEN <<>>
    ELSE IF Len(cmd) = 1 THEN cmd[1]
    ELSE cmd[1] \o <<" ">> \o Join(Tail(cmd))

PidFilePath(n) == "/envs/" \o Str(n) \o "/namespace.pid"

\* The words of the command line before the quoted command of su.
NsenterWords(n) ==
    << <<"sudo">>, <<"nsenter">>, <<"--target=$(sudo cat " \o PidFilePath(n) \o ")">>,
       <<"--mount">>, <<"su">>, <<Str(n)>>, <<"--command">> >>

\* fmt.Sprintf("sudo nsenter --target=$(sudo cat %s) --mount su %s --command
\*              'cd /workspace && %s'", pidFile, env.Name, command)
sshCmd(env, cmd) ==
    Join(NsenterWords(env.name)) \o <<" ", "'", "cd", " ", "/workspace", " ", "&&", " ">>
       \o (IF cmd = <<>> THEN <<"exec", " ", "bash">> ELSE Join(cmd)) \o <<"'">>

\* The shell reading a command line: quotes group pieces into one word and
\* are removed, blanks end a word, ; and && end a command.
EndWord(st) ==
    IF st.open
    THEN [st EXCEPT !.words = Append(@, st.word), !.word = <<>>, !.open = FALSE]
    ELSE st

EndCmd(st) ==
    IF st.words = <<>> THEN st
    ELSE [st EXCEPT !.cmds = Append(@, st.words), !.words = <<>>]

ShellStep(st, a) ==
    IF st.quote
    THEN IF a = "'" THEN [st EXCEPT !.quote = FALSE]
         ELSE [st EXCEPT !.word = Append(@, a)]
    ELSE IF a = "'" THEN [st EXCEPT !.quote = TRUE, !.open = TRUE]
    ELSE IF a = " " THEN EndWord(st)
    ELSE IF a \in {";", "&&"} THEN EndCmd(EndWord(st))
    ELSE [st EXCEPT !.word = Append(@, a), !.open = TRUE]

RECURSIVE ShellRead(_, _)
ShellRead(line, st) ==
    IF line = <<>> THEN st ELSE ShellRead(Tail(line), ShellStep(st, line[1]))

\* ok is false for a line that ends inside a quote: the shell runs nothing of it.
ShellParse(line) ==
    Then(ShellRead(line, [quote |-> FALSE, open |-> FALSE, word |-> <<>>,
                          words |-> <<>>, cmds |-> <<>>]),
         LAMBDA st : [ok |-> ~st.quote, cmds |-> EndCmd(EndWord(st)).cmds])

\* Commands for EnterNamespace on environment n: none, one word, two words, an
\* argument holding a blank, an argument holding a quote, and an argument
\* that closes the quote of the line and goes on with a userdel.
Argvs(n) ==
    { <<>>,
      << <<"bash">> >>,
      << <<"git">>, <<"status">> >>,
      << <<"echo">>, <<"a", " ", "b">> >>,
      << <<"echo">>, <<"it", "'", "s">> >>,
      << <<"true", "'", ";", " ", "sudo", " ", "userdel", " ", "-r", " ", Str(n), ";",
           " ", "echo", " ", "'">> >> }

\* One command of the line, run by the login shell of the guest.  nsenter
\* needs the PID file and its live process, su the user; the command of su is
\* read by the user's shell, which runs it without privileges.  run: what the
\* user's shell ran after cd /workspace.
GuestCommand(g, n, words) ==
    IF Len(words) = 8 /\ SubSeq(words, 1, 7) = NsenterWords(n)
    THEN IF n \in g.users /\ g.pidFile[n] # 0 /\ g.pidFile[n] \in g.procs
         THEN Then(ShellParse(words[8]),
                   LAMBDA inner : [g |-> g, ok |-> inner.ok, run |-> Tail(inner.cmds)])
         ELSE [g |-> g, ok |-> FALSE, run |-> <<>>]
    ELSE IF Len(words) = 4 /\ SubSeq(words, 1, 3) = << <<"sudo">>, <<"userdel">>, <<"-r">> >>
            /\ \E m \in Names : words[4] = <<Str(m)>>
    THEN Then(CmdUserdel(g, CHOOSE m \in Names : words[4] = <<Str(m)>>),
              LAMBDA e : [g |-> e.g, ok |-> e.ok, run |-> <<>>])
    ELSE [g |-> g, ok |-> TRUE, run |-> <<>>]

RECURSIVE GuestCommands(_, _, _)
GuestCommands(acc, n, cmds) ==
    IF cmds = <<>> THEN acc
    ELSE GuestCommands(
            Then(GuestCommand(acc.g, n, cmds[1]),
                 LAMBDA r : [g |-> r.g, ok |-> r.ok, run |-> acc.run \o r.run,
                             teardown |-> acc.teardown
                                            \/ (Len(cmds[1]) > 1 /\ cmds[1][2] = <<"userdel">>)]),
            n, Tail(cmds))

\* sh -c <line> on the guest.
CmdLine(g, n, line) ==
    Then(ShellParse(line),
         LAMBDA p :
           IF ~p.ok THEN [g |-> g, ok |-> FALSE, run |-> <<>>, teardown |-> FALSE]
           ELSE GuestCommands([g |-> g, ok |-> TRUE, run |-> <<>>, teardown |-> FALSE],
                              n, p.cmds))

\* Client.ExecInteractive as the Manager sees it: the session runs the line or
\* is lost before it does.
ExecInteractiveLine(outcome, g, r) ==
    IF outcome = "ok" THEN r ELSE [g |-> g, ok |-> FALSE, run |-> <<>>, teardown |-> FALSE]

EnterNamespace(g, outcome, isConnected, sshUp, env, cmd) ==
    IF ~ensureSSH(isConnected, sshUp)
    THEN [g |-> g, ok |-> FALSE, err |-> "ssh", cmds |-> <<>>, lines |-> <<>>,
          run |-> <<>>, teardown |-> FALSE]
    ELSE Then(sshCmd(env, cmd),
              LAMBDA line :
                Then(ExecInteractiveLine(outcome, g, CmdLine(g, env.name, line)),
                     LAMBDA e :
                       [g |-> e.g, ok |-> e.ok, err |-> IF e.ok THEN "" ELSE "command",
                        cmds |-> Issued("enter", env.name, e), lines |-> <<line>>,
                        run |-> e.run, teardown |-> e.teardown]))

(***************************************************************************)
(* delete-all command (internal/cli/delete_all.go)                         *)
(***************************************************************************)

WhiteSpace == {" ", "\t", "\n", "\r"}

RECURSIVE TrimSpaceLeft(_)
TrimSpaceLeft(s) ==
    IF s # <<>> /\ s[1] \in WhiteSpace THEN TrimSpaceLeft(Tail(s)) ELSE s

RECURSIVE TrimSpaceRight(_)
TrimSpaceRight(s) ==
    IF s # <<>> /\ s[Len(s)] \in WhiteSpace
    THEN TrimSpaceRight(SubSeq(s, 1, Len(s) - 1)) ELSE s

\* strings.TrimSpace(strings.ToLower(response))
NormalizeResponse(response) ==
    TrimSpaceRight(TrimSpaceLeft([i \in DOMAIN response |-> ToLowerRune(response[i])]))

\* What standard input holds when the confirmation is read.
Answers == { <<"y", "\n">>, <<"Y", "e", "s", " ", "\n">>, <<"n", "\n">>, <<"\n">>,
             <<"y">> }

\* reader.ReadString('\n') fails when the input ends before a newline.
ReadLineOK(input) == \E i \in DOMAIN input : input[i] = "\n"

\* The confirmation taking every answer but "n" for a yes.
Confirmed_UnlessNo(force, input) ==
    force \/ NormalizeResponse(input) # <<"n">>

Confirmed(force, input) ==
    force \/ NormalizeResponse(input) \in { <<"y">>, <<"y", "e", "s">> }

VMStatuses == {"Absent", "Stopped", "Running"}

\* The deletion loop of runDeleteAll: counts instead of messages.
RECURSIVE runDeleteEach(_, _, _)
runDeleteEach(envs, plan, acc) ==
    IF envs = <<>> THEN acc
    ELSE LET d == Delete(acc.g, plan, TRUE, TRUE, envs[1].name)
         IN  runDeleteEach(Tail(envs), plan,
                           [g |-> d.g,
                            failed |-> IF d.ok THEN acc.failed
                                       ELSE Append(acc.failed, envs[1].name),
                            cmds |-> acc.cmds \o d.cmds])

runDeleteAll(g, plan, order, vmStatus, sshUp, force, input) ==
    LET l == List(g, plan, order, FALSE, sshUp)
        r == runDeleteEach(l.envs, plan, [g |-> l.g, failed |-> <<>>, cmds |-> l.cmds])
        ret(gg, ok, why, envs, failed, cc, asked, deletes) ==
            [g |-> gg, ok |-> ok, err |-> why, envs |-> envs, failed |-> failed, cmds |-> cc,
             asked |-> asked, deletes |-> deletes]
    IN  IF vmStatus = "Absent" THEN ret(g, TRUE, "", <<>>, <<>>, <<>>, FALSE, 0)
        ELSE IF vmStatus # "Running" THEN ret(g, FALSE, "vm", <<>>, <<>>, <<>>, FALSE, 0)
        ELSE IF ~l.ok THEN ret(l.g, FALSE, "list", <<>>, <<>>, l.cmds, FALSE, 0)
        ELSE IF l.envs = <<>> THEN ret(l.g, TRUE, "", <<>>, <<>>, l.cmds, FALSE, 0)
        ELSE IF ~force /\ ~ReadLineOK(input)
        THEN ret(l.g, FALSE, "read", l.envs, <<>>, l.cmds, TRUE, 0)
        ELSE IF ~Confirmed(force, input)
        THEN ret(l.g, TRUE, "cancelled", l.envs, <<>>, l.cmds, TRUE, 0)
        ELSE ret(r.g, r.failed = <<>>, IF r.failed = <<>> THEN "" ELSE "some",
                 l.envs, r.failed, r.cmds, ~force, Len(l.envs))

(***************************************************************************)
(* delete command (internal/cli/delete.go).  asked: the confirmation was   *)
(* asked for; deletes: the calls of Manager.Delete made.                   *)
(***************************************************************************)

runDelete(g, plan, vmStatus, sshUp, force, input, projectPath) ==
    LET gen == NameOf[AbsOf[projectPath]]
        ex  == Exists(g, plan, gen.name)
        d   == Delete(ex.g, plan, TRUE, TRUE, gen.name)
        ret(gg, ok, why, cc, asked, deletes) ==
            [g |-> gg, ok |-> ok, err |-> why, cmds |-> cc, asked |-> asked,
             deletes |-> deletes]
    IN  IF ~gen.ok THEN ret(g, FALSE, "name", <<>>, FALSE, 0)
        ELSE IF vmStatus = "Absent" THEN ret(g, FALSE, "novm", <<>>, FALSE, 0)
        ELSE IF vmStatus # "Running" THEN ret(g, FALSE, "vm", <<>>, FALSE, 0)
        ELSE IF ~ensureSSH(FALSE, sshUp) THEN ret(g, FALSE, "ssh", <<>>, FALSE, 0)
        ELSE IF ~ex.exists THEN ret(ex.g, FALSE, "notfound", ex.cmds, FALSE, 0)
        ELSE IF ~force /\ ~ReadLineOK(input) THEN ret(ex.g, FALSE, "read", ex.cmds, TRUE, 0)
        ELSE IF ~Confirmed(force, input) THEN ret(ex.g, TRUE, "cancelled", ex.cmds, TRUE, 0)
        ELSE ret(d.g, d.ok, d.err, ex.cmds \o d.cmds, ~force, 1)

(***************************************************************************)
(* Initial state and actions                                               *)
(***************************************************************************)

NoCall == [op |-> "none", arg |-> <<>>, ok |-> TRUE, err |-> "", exists |-> FALSE,
           env |-> NoEnv, envs |-> <<>>, failed |-> <<>>, cmds |-> <<>>, clean |-> TRUE,
           force |-> FALSE, input |-> <<>>, asked |-> FALSE, deletes |-> 0,
           argv |-> <<>>, lines |-> <<>>, run |-> <<>>, teardown |-> FALSE,
           cancelAt |-> 0]

\* No call has returned a result that the caller has not taken yet.
Idle == last = NoCall

\* A fresh guest: no environment user, /envs empty, no holder running.
Init ==
    /\ users = {}
    /\ envDirs = {}
    /\ pidFile = [n \in Names |-> 0]
    /\ procs = {}
    /\ mounts = [p \in Pids |-> <<>>]
    /\ nextPid = 1
    /\ userProcs = {}
    /\ sshUser \in SSHUsers
    /\ connected = FALSE
    /\ last = NoCall
    /\ onlyCreates = TRUE
    /\ VMInit
    /\ SSHInit
    /\ nameCall = NoNameCall
    /\ race = [p \in Racers |-> NoRacer]

\* The context of a call is cancelled while its k-th command is in flight:
\* ExecContext returns the context's error for that command and for every
\* command issued after it (client.go, the ctx.Done case of the select).
CancelPoints(plan, cmds) ==
    {k \in DOMAIN cmds :
        /\ \A j \in 1..(k - 1) : plan[cmds[j][1]] = "ok"
        /\ \A j \in k..Len(cmds) : plan[cmds[j][1]] # "ok"}

CallCreate(projectPath, plan, dies, sshUp) ==
    /\ Idle
    /\ nextPid <= MaxPid
    /\ \E r \in {Create(Guest, plan, dies, connected, sshUp, projectPath)} :
         \E at \in {0} \cup CancelPoints(plan, r.cmds) :
           /\ SetGuest(r.g)
           /\ connected' = (connected \/ (NameOf[AbsOf[projectPath]].ok /\ sshUp))
           /\ last' = [NoCall EXCEPT !.op = "Create", !.arg = projectPath, !.ok = r.ok,
                                     !.err = r.err, !.exists = r.exists, !.env = r.env,
                                     !.cmds = r.cmds, !.cancelAt = at,
                                     !.clean = (plan = NoFaults /\ ~dies /\ (connected \/ sshUp))]
           /\ onlyCreates' = (onlyCreates /\ r.ok)

CallExists(envName, plan, sshUp) ==
    /\ Idle
    /\ \E up \in {ensureSSH(connected, sshUp)}, r \in {Exists(Guest, plan, envName)} :
         \E at \in {0} \cup (IF up THEN CancelPoints(plan, r.cmds) ELSE {}) :
           /\ connected' = up
           /\ SetGuest(IF up THEN r.g ELSE Guest)
           /\ last' = [NoCall EXCEPT !.op = "Exists", !.arg = envName, !.ok = up,
                                     !.err = IF up THEN "" ELSE "ssh",
                                     !.exists = up /\ r.exists,
                                     !.cmds = IF up THEN r.cmds ELSE <<>>,
                                     !.cancelAt = at,
                                     !.clean = (plan = NoFaults /\ up)]
           /\ UNCHANGED onlyCreates

CallList(plan, order, sshUp) ==
    /\ Idle
    /\ \E r \in {List(Guest, plan, order, connected, sshUp)} :
           /\ connected' = (connected \/ sshUp)
           /\ SetGuest(r.g)
           /\ last' = [NoCall EXCEPT !.op = "List", !.ok = r.ok, !.err = r.err,
                                     !.envs = r.envs, !.cmds = r.cmds,
                                     !.clean = (plan = NoFaults /\ (connected \/ sshUp))]
           /\ UNCHANGED onlyCreates

CallDelete(envName, plan, sshUp) ==
    /\ Idle
    /\ \E r \in {Delete(Guest, plan, connected, sshUp, envName)} :
         \E at \in {0} \cup CancelPoints(plan, r.cmds) :
           /\ connected' = (connected \/ sshUp)
           /\ SetGuest(r.g)
           /\ last' = [NoCall EXCEPT !.op = "Delete", !.arg = envName, !.ok = r.ok,
                                     !.err = r.err, !.exists = r.exists, !.cmds = r.cmds,
                                     !.cancelAt = at,
                                     !.clean = (plan = NoFaults /\ (connected \/ sshUp))]
           /\ onlyCreates' = FALSE

CallDeleteAll(plan, order, sshUp) ==
    /\ Idle
    /\ \E r \in {DeleteAll(Guest, plan, order, connected, sshUp)} :
           /\ connected' = (connected \/ sshUp)
           /\ SetGuest(r.g)
           /\ last' = [NoCall EXCEPT !.op = "DeleteAll", !.ok = r.ok, !.err = r.err,
                                     !.envs = r.envs, !.failed = r.failed, !.cmds = r.cmds,
                                     !.clean = (plan = NoFaults /\ (connected \/ sshUp))]
           /\ onlyCreates' = FALSE

\* The delete-all command runs in a process of its own, with its own Manager.
CommandDeleteAll(plan, order, vmStatus, sshUp, force, input) ==
    /\ Idle
    /\ \E r \in {runDeleteAll(Guest, plan, order, vmStatus, sshUp, force, input)} :
           /\ SetGuest(r.g)
           /\ last' = [NoCall EXCEPT !.op = "delete-all", !.ok = r.ok, !.err = r.err,
                                     !.envs = r.envs, !.failed = r.failed, !.cmds = r.cmds,
                                     !.clean = (plan = NoFaults /\ vmStatus = "Running" /\ sshUp
                                                /\ Confirmed(force, input)),
                                     !.force = force, !.input = input, !.asked = r.asked,
                                     !.deletes = r.deletes]
           /\ onlyCreates' = FALSE
           /\ UNCHANGED connected

CallEnterNamespace(envName, cmd, outcome, sshUp) ==
    /\ Idle
    /\ \E r \in {EnterNamespace(Guest, outcome, connected, sshUp,
                                 [name |-> envName, path |-> <<>>], cmd)} :
           /\ connected' = (connected \/ sshUp)
           /\ SetGuest(r.g)
           /\ last' = [NoCall EXCEPT !.op = "EnterNamespace", !.arg = envName, !.ok = r.ok,
                                     !.err = r.err, !.cmds = r.cmds, !.argv = cmd,
                                     !.lines = r.lines, !.run = r.run,
                                     !.teardown = r.teardown,
                                     !.clean = (outcome = "ok" /\ (connected \/ sshUp))]
           /\ onlyCreates' = FALSE

\* The delete command, likewise in a process of its own.
CommandDelete(projectPath, plan, vmStatus, sshUp, force, input) ==
    /\ Idle
    /\ \E r \in {runDelete(Guest, plan, vmStatus, sshUp, force, input, projectPath)} :
           /\ SetGuest(r.g)
           /\ last' = [NoCall EXCEPT !.op = "delete", !.arg = projectPath, !.ok = r.ok,
                                     !.err = r.err, !.cmds = r.cmds,
                                     !.clean = (plan = NoFaults /\ vmStatus = "Running" /\ sshUp
                                                /\ Confirmed(force, input)),
                                     !.force = force, !.input = input, !.asked = r.asked,
                                     !.deletes = r.deletes]
           /\ onlyCreates' = FALSE
           /\ UNCHANGED connected

\* A namespace holder ends (killed, out of memory): its mount namespace goes with it.
HolderExit(pid) ==
    /\ Idle
    /\ pid \in procs
    /\ procs' = procs \ {pid}
    /\ mounts' = [mounts EXCEPT ![pid] = <<>>]
    /\ onlyCreates' = FALSE
    /\ UNCHANGED <<users, envDirs, pidFile, nextPid, userProcs, sshUser, connected, last>>

\* The VM is stopped and started again: files and accounts persist, processes do
\* not, and the host's connection is gone.
VMRestart ==
    /\ Idle
    /\ procs' = {}
    /\ userProcs' = {}
    /\ mounts' = [p \in Pids |-> <<>>]
    /\ connected' = FALSE
    /\ onlyCreates' = FALSE
    /\ UNCHANGED <<sshUser, users, envDirs, pidFile, nextPid, last>>

\* A shell session in the environment leaves a process of user n running.
UserProcStart(n) ==
    /\ Idle
    /\ n \in users
    /\ n \notin userProcs
    /\ userProcs' = userProcs \cup {n}
    /\ onlyCreates' = FALSE
    /\ UNCHANGED <<sshUser, users, envDirs, pidFile, procs, mounts, nextPid, connected, last>>

\* Manager.Close at the end of a command; the next command builds a new Manager.
NewManager ==
    /\ Idle
    /\ connected
    /\ connected' = FALSE
    /\ UNCHANGED <<users, envDirs, pidFile, procs, mounts, nextPid, userProcs, sshUser,
                   last, onlyCreates>>

\* The caller takes the result of the call; the next call or guest event follows.
Return ==
    /\ ~Idle
    /\ last' = NoCall
    /\ UNCHANGED <<users, envDirs, pidFile, procs, mounts, nextPid, userProcs, sshUser, connected,
                   onlyCreates>>

\* The inputs of a call, one for each way it can run: the holder can only die
\* at once in a provisioning that reaches it, the channel's outcomes only
\* matter when there is a connection, and the confirmation is only read
\* without --force.
CreateInputs ==
    {in \in [plan : CreatePlans, dies : BOOLEAN, sshUp : BOOLEAN] :
        /\ in.dies => \A c \in ProvisioningCmds : in.plan[c] = "ok"
        /\ ~in.sshUp => (in.plan = NoFaults /\ ~in.dies)}

CallInputs(plans) ==
    {in \in [plan : plans, sshUp : BOOLEAN] : ~in.sshUp => in.plan = NoFaults}

ExistsInputs == CallInputs(ExistsPlans)

ListInputs == CallInputs(ListPlans)

DeleteInputs == CallInputs(DeletePlans)

DeleteAllInputs == CallInputs(DeleteAllPlans)

EnterInputs ==
    {in \in [outcome : {"ok", "lost"}, sshUp : BOOLEAN] : ~in.sshUp => in.outcome = "ok"}

CommandInputs ==
    {in \in [plan : DeleteAllPlans, vmStatus : VMStatuses, sshUp : BOOLEAN,
             force : BOOLEAN, input : Answers] :
        /\ (in.vmStatus # "Running" \/ ~in.sshUp) => (in.plan = NoFaults /\ in.force)
        /\ in.force => in.input = <<"\n">>
        /\ ~Confirmed(in.force, in.input) => in.plan \in ListPlans}

DeleteCommandInputs ==
    {in \in [plan : DeletePlans, vmStatus : VMStatuses, sshUp : BOOLEAN,
             force : BOOLEAN, input : Answers] :
        /\ (in.vmStatus # "Running" \/ ~in.sshUp) => (in.plan = NoFaults /\ in.force)
        /\ in.force => in.input = <<"\n">>
        /\ ~Confirmed(in.force, in.input) => in.plan \in ExistsPlans}

\* EnsureRunning and ConnectWithRetry are only tried by a Manager without a
\* connection: sshUp says whether they succeed then.
Reaches(in) == connected => in.sshUp

\* The calls a caller can make on the Manager and the delete-all command.
Call ==
    \/ \E p \in Paths, in \in CreateInputs :
          Reaches(in) /\ CallCreate(p, in.plan, in.dies, in.sshUp)
    \/ \E n \in Names, in \in ExistsInputs :
          Reaches(in) /\ CallExists(n, in.plan, in.sshUp)
    \/ \E in \in ListInputs, order \in Orders(envDirs) :
          Reaches(in) /\ CallList(in.plan, order, in.sshUp)
    \/ \E n \in Names, in \in DeleteInputs :
          Reaches(in) /\ CallDelete(n, in.plan, in.sshUp)
    \/ \E in \in DeleteAllInputs, order \in Orders(envDirs) :
          Reaches(in) /\ CallDeleteAll(in.plan, order, in.sshUp)
    \/ \E in \in CommandInputs, order \in Orders(envDirs) :
          CommandDeleteAll(in.plan, order, in.vmStatus, in.sshUp, in.force, in.input)
    \/ \E n \in Names, in \in EnterInputs :
          \E cmd \in Argvs(n) :
             Reaches(in) /\ CallEnterNamespace(n, cmd, in.outcome, in.sshUp)
    \/ \E p \in {PathZ4, PathRoot}, in \in DeleteCommandInputs :
          CommandDelete(p, in.plan, in.vmStatus, in.sshUp, in.force, in.input)

\* What happens in the guest and on the host between calls.
Event ==
    \/ \E pid \in Pids : HolderExit(pid)
    \/ VMRestart
    \/ \E n \in Names : UserProcStart(n)
    \/ NewManager

Next ==
    \/ Idle /\ Call /\ UNCHANGED <<vmVars, sshVars, nameVars, raceVars>>
    \/ Idle /\ Event /\ UNCHANGED <<vmVars, sshVars, nameVars, raceVars>>
    \/ Return /\ UNCHANGED <<vmVars, sshVars, nameVars, raceVars>>

Spec == Init /\ [][Next]_vars

(***************************************************************************)
(* Two concurrent Create calls for one project path.  Each controller has  *)
(* its own Manager and its own connection (ensureSSH has succeeded); the   *)
(* guest is shared.  Create is a sequence of remote commands with nothing  *)
(* that excludes another controller between them, so one step of a         *)
(* controller is one remote command of its Create.                         *)
(***************************************************************************)

RacePath == PathZ4

RaceEnv == [name |-> NameOf[AbsOf[RacePath]].name, path |-> AbsOf[RacePath]]

\* The bind source can be missing in the guest: the mount command then fails.
RacePlans == {NoFaults, [NoFaults EXCEPT !["mount"] = "lost"]}

\* The remote command at c.pc of a Create for env, and where Create goes next:
\* the early return on an existing environment, the return on a failed
\* useradd, the userdel after a failed step of createNamespace.
CreateStep(g, c, env) ==
    CASE c.pc = "probe" ->
           (LET e == Exists(g, c.plan, env.name)
            IN  [g |-> e.g,
                 c |-> IF e.exists
                       THEN [c EXCEPT !.pc = "done", !.ok = TRUE, !.exists = TRUE]
                       ELSE [c EXCEPT !.pc = "useradd"]])
      [] c.pc = "useradd" ->
           (LET e == createUser(g, c.plan, env.name)
            IN  [g |-> e.g,
                 c |-> IF e.ok THEN [c EXCEPT !.pc = "mkdir"]
                       ELSE [c EXCEPT !.pc = "done", !.err = "useradd"]])
      [] c.pc = "mkdir" ->
           (LET e == ExecContext(c.plan["mkdir"], g, CmdMkdir(g, env.name))
            IN  [g |-> e.g, c |-> [c EXCEPT !.pc = IF e.ok THEN "unshare" ELSE "userdel"]])
      [] c.pc = "unshare" ->
           (LET e == ExecContext(c.plan["unshare"], g, CmdUnshare(g, env.name, c.dies))
            IN  [g |-> e.g, c |-> [c EXCEPT !.pc = IF e.ok THEN "cat" ELSE "userdel"]])
      [] c.pc = "cat" ->
           (LET e == ExecContext(c.plan["cat"], g, CmdCat(g, env.name))
            IN  [g |-> e.g,
                 c |-> IF e.ok THEN [c EXCEPT !.pc = "kill0", !.pid = e.out]
                       ELSE [c EXCEPT !.pc = "userdel"]])
      [] c.pc = "kill0" ->
           (LET e == ExecContext(c.plan["kill0"], g, CmdKill0(g, c.pid))
            IN  [g |-> e.g, c |-> [c EXCEPT !.pc = IF e.ok THEN "mount" ELSE "userdel"]])
      [] c.pc = "mount" ->
           (LET e == setupNamespaceFilesystem(g, c.plan, env, c.pid)
            IN  [g |-> e.g,
                 c |-> IF e.ok THEN [c EXCEPT !.pc = "done", !.ok = TRUE]
                       ELSE [c EXCEPT !.pc = "userdel"]])
      [] c.pc = "userdel" ->
           (LET e == deleteUser(g, c.plan, env.name)
            IN  [g |-> e.g, c |-> [c EXCEPT !.pc = "done", !.err = "namespace"]])

\* Controller p calls Create: the name is generated and ensureSSH succeeds.
RaceCreate(p, plan, dies) ==
    /\ race[p].pc = "idle"
    /\ race' = [race EXCEPT ![p] = [NoRacer EXCEPT !.pc = "probe", !.plan = plan,
                                                   !.dies = dies]]
    /\ UNCHANGED envVars

\* The Create of controller p issues its next remote command.
RaceStep(p) ==
    /\ race[p].pc \notin {"idle", "done"}
    /\ race[p].pc = "unshare" => nextPid <= MaxPid
    /\ \E r \in {CreateStep(Guest, race[p], RaceEnv)} :
         /\ SetGuest(r.g)
         /\ race' = [race EXCEPT ![p] = r.c]
    /\ UNCHANGED <<connected, last, onlyCreates>>

NextRace ==
    \/ (\E p \in Racers, plan \in RacePlans, dies \in BOOLEAN : RaceCreate(p, plan, dies))
          /\ UNCHANGED <<vmVars, sshVars, nameVars>>
    \/ (\E p \in Racers : RaceStep(p)) /\ UNCHANGED <<vmVars, sshVars, nameVars>>

SpecRace == Init /\ [][NextRace]_vars


(***************************************************************************)
(* VM controller (pkg/vm/manager.go) over the backend subprocess limactl.  *)
(* An error is the sequence of the messages it wraps, outermost first;     *)
(* <<>> is no error.  A world w carries the backend's instances, the       *)
(* argument vectors run so far and what the host and the backend do in     *)
(* this call.                                                              *)
(***************************************************************************)

Statuses == {"Absent", "Stopped", "Running", "Broken"}

\* The order in which the backend lists its instances.
InstOrder == <<"dev", DefaultInstanceName>>

RecordDoc(n, st) == Doc("object", n, st, <<>>)

\* What `list --json` prints, as the backend chooses to: an array of records,
\* a bare record when there is exactly one, or something else altogether
\* (the JSON value null, a number, an array holding a number, a record whose
\* name is a number, text that is not JSON or no text at all).
RenderModes == {"array", "object", "null", "number", "badarray", "badobject", "invalid"}

\* What the backend prints by its contract.
BackendModes == {"array", "object"}

IsPresent(inst, n) == inst[n] # "Absent"

Render(inst, mode) ==
    LET Present(n) == IsPresent(inst, n)
        present == SelectSeq(InstOrder, Present)
        recs == [i \in DOMAIN present |-> RecordDoc(present[i], inst[present[i]])]
    IN  CASE mode = "object" /\ Len(recs) = 1 -> recs[1]
          [] mode = "null"      -> Doc("null", "", "", <<>>)
          [] mode = "number"    -> Doc("number", "", "", <<>>)
          [] mode = "badarray"  -> Doc("array", "", "", Append(recs, Doc("number", "", "", <<>>)))
          [] mode = "badobject" -> Doc("badobject", "", "Running", <<>>)
          [] mode = "invalid"   -> Doc("invalid", "", "", <<>>)
          [] OTHER              -> Doc("array", "", "", recs)

\* The backend given an argument vector: [inst, ok, out].
Backend(inst, argv0, mode) ==
    LET argv == IF argv0 # <<>> /\ argv0[1] = "--tty=false" THEN Tail(argv0) ELSE argv0
        Named(n) == "--name=" \o n
        fail == [inst |-> inst, ok |-> FALSE, out |-> NoDoc]
        Set(n, st) == [inst |-> [inst EXCEPT ![n] = st], ok |-> TRUE, out |-> NoDoc]
    IN  CASE argv = <<"list", "--json">> ->
               [inst |-> inst, ok |-> TRUE, out |-> Render(inst, mode)]
          [] Len(argv) = 3 /\ argv[1] = "create" ->
               IF \E n \in InstNames : argv[2] = Named(n) /\ inst[n] = "Absent"
               THEN Set(CHOOSE n \in InstNames : argv[2] = Named(n), "Stopped")
               ELSE fail
          [] Len(argv) = 2 /\ argv[1] = "start" ->
               IF argv[2] \in InstNames /\ inst[argv[2]] \in {"Stopped", "Running"}
               THEN Set(argv[2], "Running") ELSE fail
          [] Len(argv) = 2 /\ argv[1] = "stop" ->
               IF argv[2] \in InstNames /\ inst[argv[2]] = "Running"
               THEN Set(argv[2], "Stopped") ELSE fail
          [] Len(argv) \in {2, 3} /\ argv[1] = "delete" ->
               IF /\ argv[2] \in InstNames
                  /\ inst[argv[2]] # "Absent"
                  /\ (Len(argv) = 3 => argv[3] = "--force")
                  /\ (inst[argv[2]] = "Running" => Len(argv) = 3)
               THEN Set(argv[2], "Absent") ELSE fail
          [] OTHER -> fail

World(inst, mode, failAt, installed, diskOK) ==
    [inst |-> inst, calls |-> <<>>, oks |-> <<>>, mode |-> mode, failAt |-> failAt,
     installed |-> installed, diskOK |-> diskOK]

\* findLimactl: limactl is in PATH.
findLimactl(w) == w.installed

\* execLimactl: runs limactl with exactly the arguments it is given; the
\* failAt-th run of the call fails (the process cannot be started, is killed
\* with the context, or exits non-zero for a reason of its own).
execLimactl(w, args) ==
    IF ~findLimactl(w)
    THEN [w |-> w, ok |-> FALSE, err |-> <<"limactl not found in PATH">>, out |-> NoDoc]
    ELSE Then(Backend(w.inst, args, w.mode), LAMBDA b :
           IF Len(w.calls) + 1 = w.failAt \/ ~b.ok
           THEN [w |-> [w EXCEPT !.calls = Append(@, args), !.oks = Append(@, FALSE)],
                 ok |-> FALSE, err |-> <<"limactl failed">>, out |-> NoDoc]
           ELSE [w |-> [w EXCEPT !.calls = Append(@, args), !.oks = Append(@, TRUE),
                                 !.inst = b.inst],
                 ok |-> TRUE, err |-> <<>>, out |-> b.out])

\* json.Unmarshal into an Instance: a record fills it, null leaves it zero,
\* anything else (or a member of the wrong type) is an error.
UnmarshalInstance(d) ==
    CASE d.kind = "object" -> [ok |-> TRUE, inst |-> [name |-> d.name, status |-> d.status]]
      [] d.kind = "null"   -> [ok |-> TRUE, inst |-> [name |-> "", status |-> ""]]
      [] OTHER             -> [ok |-> FALSE, inst |-> [name |-> "", status |-> ""]]

\* json.Unmarshal into []Instance: an array element by element, null as nil.
UnmarshalInstances(d) ==
    CASE d.kind = "array" ->
           [ok |-> \A i \in DOMAIN d.elems : UnmarshalInstance(d.elems[i]).ok,
            list |-> [i \in DOMAIN d.elems |-> UnmarshalInstance(d.elems[i]).inst]]
      [] d.kind = "null" -> [ok |-> TRUE, list |-> <<>>]
      [] OTHER -> [ok |-> FALSE, list |-> <<>>]

\* The array only, without the single object.
ParseInstances_ArrayOnly(d) ==
    Then(UnmarshalInstances(d), LAMBDA a :
      IF a.ok THEN [ok |-> TRUE, err |-> <<>>, list |-> a.list]
      ELSE [ok |-> FALSE, list |-> <<>>,
            err |-> <<"failed to parse limactl list output as array or object">>])

\* The array first, the single object on failure.
ParseInstances(d) ==
    Then(UnmarshalInstances(d), LAMBDA a :
      IF a.ok THEN [ok |-> TRUE, err |-> <<>>, list |-> a.list]
      ELSE Then(UnmarshalInstance(d), LAMBDA o :
        IF o.ok THEN [ok |-> TRUE, err |-> <<>>, list |-> <<o.inst>>]
        ELSE [ok |-> FALSE, list |-> <<>>,
              err |-> <<"failed to parse limactl list output as array or object">>]))

listInstances(w) ==
    Then(execLimactl(w, <<"list", "--json">>), LAMBDA x :
      IF ~x.ok THEN [w |-> x.w, ok |-> FALSE, err |-> x.err, list |-> <<>>, doc |-> x.out]
      ELSE Then(ParseInstances(x.out), LAMBDA r :
        [w |-> x.w, ok |-> r.ok, err |-> r.err, list |-> r.list, doc |-> x.out]))

Wrap(msg, err) == <<msg>> \o err

HasName(list, n) == \E i \in DOMAIN list : list[i].name = n

\* The first record of the list that carries the name.
Find(list, n) == list[CHOOSE i \in DOMAIN list :
                        list[i].name = n /\ \A j \in 1..(i - 1) : list[j].name # n]

VMExists(w) ==
    Then(listInstances(w), LAMBDA l :
      IF ~l.ok
      THEN [w |-> l.w, ok |-> FALSE, err |-> Wrap("failed to list instances", l.err),
            exists |-> FALSE]
      ELSE [w |-> l.w, ok |-> TRUE, err |-> <<>>,
            exists |-> HasName(l.list, DefaultInstanceName)])

GetInstance(w) ==
    Then(listInstances(w), LAMBDA l :
      IF ~l.ok THEN [w |-> l.w, ok |-> FALSE, err |-> l.err, inst |-> <<>>]
      ELSE IF HasName(l.list, DefaultInstanceName)
      THEN [w |-> l.w, ok |-> TRUE, err |-> <<>>,
            inst |-> <<Find(l.list, DefaultInstanceName)>>]
      ELSE [w |-> l.w, ok |-> FALSE, err |-> <<"instance not found">>, inst |-> <<>>])

IsRunning(w) ==
    Then(GetInstance(w), LAMBDA g :
      IF ~g.ok
      THEN [w |-> g.w, ok |-> FALSE, err |-> Wrap("failed to inspect instance", g.err),
            running |-> FALSE]
      ELSE [w |-> g.w, ok |-> TRUE, err |-> <<>>, running |-> g.inst[1].status = "Running"])

\* The temporary configuration file of Create.
ConfigPath == "/tmp/llima-box-" \o DefaultInstanceName \o ".yaml"

Result(w, err) == [w |-> w, ok |-> err = <<>>, err |-> err]

\* Create without the check that the instance exists.
VMCreate_NoExistsCheck(w) ==
    Then(VMExists(w), LAMBDA e :
      IF ~e.ok THEN Result(e.w, e.err)
      ELSE IF ~e.w.diskOK THEN Result(e.w, <<"failed to write temporary config">>)
      ELSE Then(execLimactl(e.w, <<"create", "--name=" \o DefaultInstanceName, ConfigPath>>),
                LAMBDA x :
        IF ~x.ok THEN Result(x.w, Wrap("failed to create instance", x.err))
        ELSE Result(x.w, <<>>)))

VMCreate(w) ==
    Then(VMExists(w), LAMBDA e :
      IF ~e.ok THEN Result(e.w, e.err)
      ELSE IF e.exists THEN Result(e.w, <<"instance already exists">>)
      ELSE IF ~e.w.diskOK THEN Result(e.w, <<"failed to write temporary config">>)
      ELSE Then(execLimactl(e.w, <<"create", "--name=" \o DefaultInstanceName, ConfigPath>>),
                LAMBDA x :
        IF ~x.ok THEN Result(x.w, Wrap("failed to create instance", x.err))
        ELSE Result(x.w, <<>>)))

\* Start without the check that the instance is running already.
Start_NoRunningCheck(w) ==
    Then(GetInstance(w), LAMBDA g :
      IF ~g.ok THEN Result(g.w, Wrap("failed to get instance", g.err))
      ELSE Then(execLimactl(g.w, <<"start", DefaultInstanceName>>), LAMBDA x :
        IF ~x.ok THEN Result(x.w, Wrap("failed to start instance", x.err))
        ELSE Result(x.w, <<>>)))

Start(w) ==
    Then(GetInstance(w), LAMBDA g :
      IF ~g.ok THEN Result(g.w, Wrap("failed to get instance", g.err))
      ELSE IF g.inst[1].status = "Running" THEN Result(g.w, <<>>)
      ELSE Then(execLimactl(g.w, <<"start", DefaultInstanceName>>), LAMBDA x :
        IF ~x.ok THEN Result(x.w, Wrap("failed to start instance", x.err))
        ELSE Result(x.w, <<>>)))

Stop(w) ==
    Then(GetInstance(w), LAMBDA g :
      IF ~g.ok THEN Result(g.w, Wrap("failed to get instance", g.err))
      ELSE Then(execLimactl(g.w, <<"stop", DefaultInstanceName>>), LAMBDA x :
        IF ~x.ok THEN Result(x.w, Wrap("failed to stop instance", x.err))
        ELSE Result(x.w, <<>>)))

VMDelete(w, force) ==
    Then(GetInstance(w), LAMBDA g :
      IF ~g.ok THEN Result(g.w, Wrap("failed to get instance", g.err))
      ELSE Then(execLimactl(g.w, IF force THEN <<"delete", DefaultInstanceName, "--force">>
                                 ELSE <<"delete", DefaultInstanceName>>), LAMBDA x :
        IF ~x.ok THEN Result(x.w, Wrap("failed to delete instance", x.err))
        ELSE Result(x.w, <<>>)))

\* EnsureRunning that creates the instance and leaves it as it is.
EnsureRunning_NoStart(w) ==
    Then(VMExists(w), LAMBDA e :
      IF ~e.ok THEN Result(e.w, e.err)
      ELSE Then(IF ~e.exists THEN VMCreate(e.w) ELSE Result(e.w, <<>>), LAMBDA c :
        IF ~c.ok THEN Result(c.w, c.err)
        ELSE Then(IsRunning(c.w), LAMBDA r :
          IF ~r.ok THEN Result(r.w, r.err)
          ELSE Result(r.w, <<>>))))

EnsureRunning(w) ==
    Then(VMExists(w), LAMBDA e :
      IF ~e.ok THEN Result(e.w, e.err)
      ELSE Then(IF ~e.exists THEN VMCreate(e.w) ELSE Result(e.w, <<>>), LAMBDA c :
        IF ~c.ok THEN Result(c.w, c.err)
        ELSE Then(IsRunning(c.w), LAMBDA r :
          IF ~r.ok THEN Result(r.w, r.err)
          ELSE IF ~r.running THEN Start(r.w)
          ELSE Result(r.w, <<>>))))

(***************************************************************************)
(* The VM controller's calls and the backend between them                  *)
(***************************************************************************)

VMIdle == vmLast = NoVMCall

\* How a call can run: the backend's output shape, the run that fails (0 for
\* none; EnsureRunning makes six runs at most), limactl missing from PATH,
\* the temporary directory not writable.
FailPoints == 0..6

VMInputs ==
    [mode : BackendModes, failAt : FailPoints, installed : {TRUE}, diskOK : BOOLEAN]
       \cup {[mode |-> "array", failAt |-> 0, installed |-> FALSE, diskOK |-> TRUE]}

WorldOf(in) == World(instances, in.mode, in.failAt, in.installed, in.diskOK)

CleanVM(in) == in.failAt = 0 /\ in.installed /\ in.diskOK

VMReturns(op, in, r) ==
    /\ instances' = r.w.inst
    /\ vmLast' = [NoVMCall EXCEPT !.op = op, !.ok = r.ok, !.err = r.err,
                                  !.calls = r.w.calls, !.oks = r.w.oks, !.clean = CleanVM(in)]

CallVMCreate(in) ==
    /\ VMIdle
    /\ \E r \in {VMCreate(WorldOf(in))} : VMReturns("Create", in, r)

CallStart(in) ==
    /\ VMIdle
    /\ \E r \in {Start(WorldOf(in))} : VMReturns("Start", in, r)

CallStop(in) ==
    /\ VMIdle
    /\ \E r \in {Stop(WorldOf(in))} : VMReturns("Stop", in, r)

CallVMDelete(in, force) ==
    /\ VMIdle
    /\ \E r \in {VMDelete(WorldOf(in), force)} :
          /\ instances' = r.w.inst
          /\ vmLast' = [NoVMCall EXCEPT !.op = "Delete", !.ok = r.ok, !.err = r.err,
                                        !.calls = r.w.calls, !.oks = r.w.oks, !.clean = CleanVM(in),
                                        !.force = force]

CallEnsureRunning(in) ==
    /\ VMIdle
    /\ \E r \in {EnsureRunning(WorldOf(in))} : VMReturns("EnsureRunning", in, r)

CallVMExists(in) ==
    /\ VMIdle
    /\ \E r \in {VMExists(WorldOf(in))} :
          /\ instances' = r.w.inst
          /\ vmLast' = [NoVMCall EXCEPT !.op = "Exists", !.ok = r.ok, !.err = r.err,
                                        !.calls = r.w.calls, !.oks = r.w.oks, !.clean = CleanVM(in),
                                        !.answer = r.exists]

CallGetInstance(in) ==
    /\ VMIdle
    /\ \E r \in {GetInstance(WorldOf(in))} :
          /\ instances' = r.w.inst
          /\ vmLast' = [NoVMCall EXCEPT !.op = "GetInstance", !.ok = r.ok, !.err = r.err,
                                        !.calls = r.w.calls, !.oks = r.w.oks, !.clean = CleanVM(in),
                                        !.list = r.inst]

\* listInstances on whatever the backend printed.
CallListInstances(mode) ==
    /\ VMIdle
    /\ \E r \in {listInstances(World(instances, mode, 0, TRUE, TRUE))} :
          /\ instances' = r.w.inst
          /\ vmLast' = [NoVMCall EXCEPT !.op = "listInstances", !.ok = r.ok, !.err = r.err,
                                        !.calls = r.w.calls, !.oks = r.w.oks, !.doc = r.doc, !.list = r.list]

\* The backend's instances change under the controller: the user or the host
\* creates, starts, stops, breaks or deletes one.
BackendChange(n, st) ==
    /\ VMIdle
    /\ instances[n] # st
    /\ instances' = [instances EXCEPT ![n] = st]
    /\ UNCHANGED vmLast

VMReturn ==
    /\ ~VMIdle
    /\ vmLast' = NoVMCall
    /\ UNCHANGED instances

VMCall ==
    \/ \E in \in VMInputs : CallVMCreate(in)
    \/ \E in \in VMInputs : CallStart(in)
    \/ \E in \in VMInputs : CallStop(in)
    \/ \E in \in VMInputs, force \in BOOLEAN : CallVMDelete(in, force)
    \/ \E in \in VMInputs : CallEnsureRunning(in)
    \/ \E in \in VMInputs : CallVMExists(in)
    \/ \E in \in VMInputs : CallGetInstance(in)
    \/ \E mode \in RenderModes : CallListInstances(mode)

NextVM ==
    \/ VMCall /\ UNCHANGED <<envVars, sshVars, nameVars, raceVars>>
    \/ (\E n \in InstNames, st \in Statuses : BackendChange(n, st)) /\ UNCHANGED <<envVars, sshVars, nameVars, raceVars>>
    \/ VMReturn /\ UNCHANGED <<envVars, sshVars, nameVars, raceVars>>

SpecVM == Init /\ [][NextVM]_vars

(***************************************************************************)
(* Remote session (pkg/ssh/client.go, pkg/ssh/retry.go).  A world s        *)
(* carries the client's transport and what the network and the guest do    *)
(* in this call: how many dials fail before one succeeds, how many runs    *)
(* of the command fail before one succeeds.  An error is the sequence of   *)
(* the errors it wraps, outermost first, each with the count of dials and  *)
(* runs made when it arose.                                                *)
(***************************************************************************)

Min(a, b) == IF a <= b THEN a ELSE b

E(msg, at) == [msg |-> msg, at |-> at]

\* The key files Connect tries, in order: $LIMA_HOME/_config/user and
\* <instance dir>/ssh_key.  A file cannot be read, or does not parse as a
\* private key, or is a valid key.
KeyPaths == <<"_config/user", "ssh_key">>

KeyStates == {"unreadable", "invalid", "valid"}

KeyFiles == [DOMAIN KeyPaths -> KeyStates]

SSHWorld(c, dialFails, cmdFails, keys, sessionOK) ==
    [client |-> c, dialFails |-> dialFails, cmdFails |-> cmdFails, keys |-> keys,
     sessionOK |-> sessionOK, sshConfig |-> <<>>, dials |-> 0, runs |-> 0]

\* The key loop of Connect with `continue` taken for `return`: the first file
\* that cannot be used ends the search.
RECURSIVE loadKeys(_, _, _)
loadKeys_StopAtFirstBad(keys, i, authMethods) ==
    IF i > Len(KeyPaths) THEN authMethods
    ELSE IF keys[i] = "unreadable" THEN authMethods
    ELSE IF keys[i] = "invalid" THEN authMethods
    ELSE loadKeys(keys, i + 1, Append(authMethods, KeyPaths[i]))

\* The key loop of Connect from file i on: os.ReadFile, ssh.ParsePrivateKey,
\* and the key appended to authMethods when both succeed.
loadKeys(keys, i, authMethods) ==
    IF i > Len(KeyPaths) THEN authMethods
    ELSE IF keys[i] = "unreadable" THEN loadKeys(keys, i + 1, authMethods)
    ELSE IF keys[i] = "invalid" THEN loadKeys(keys, i + 1, authMethods)
    ELSE loadKeys(keys, i + 1, Append(authMethods, KeyPaths[i]))

Events(s) == s.dials + s.runs

\* ssh.Dial with the client configuration built from the keys.
Dial(s, authMethods) ==
    IF s.dialFails > 0
    THEN [s |-> [s EXCEPT !.sshConfig = authMethods, !.dials = @ + 1, !.dialFails = @ - 1],
          ok |-> FALSE, err |-> <<E("failed to dial SSH", Events(s) + 1)>>]
    ELSE [s |-> [s EXCEPT !.sshConfig = authMethods, !.dials = @ + 1, !.client = "open"],
          ok |-> TRUE, err |-> <<>>]

\* Connect: nothing to do with a client in place, else keys, then one dial.
Connect(s) ==
    IF s.client # "nil" THEN [s |-> s, ok |-> TRUE, err |-> <<>>]
    ELSE Then(loadKeys(s.keys, 1, <<>>), LAMBDA authMethods :
      IF Len(authMethods) = 0
      THEN [s |-> s, ok |-> FALSE, err |-> <<E("no valid SSH keys found", Events(s))>>]
      ELSE Dial(s, authMethods))

\* The implicit connect at the head of Exec, ExecContext, ExecInteractive, ExecPipe.
ConnectIfNil(s) ==
    IF s.client = "nil" THEN Connect(s) ELSE [s |-> s, ok |-> TRUE, err |-> <<>>]

\* c.client.NewSession(): needs an open transport.
NewSession(s) == s.client = "open" /\ s.sessionOK

Reply(s, err, out) == [s |-> s, ok |-> err = <<>>, err |-> err, out |-> out]

\* session.CombinedOutput / session.Run / session.Start of the command.
RunCommand(s) ==
    IF s.cmdFails > 0
    THEN Reply([s EXCEPT !.runs = @ + 1, !.cmdFails = @ - 1],
               <<E("command failed", Events(s) + 1)>>, "partial")
    ELSE Reply([s EXCEPT !.runs = @ + 1], <<>>, "output")

Exec(s) ==
    Then(ConnectIfNil(s), LAMBDA c :
      IF ~c.ok THEN Reply(c.s, c.err, "")
      ELSE IF ~NewSession(c.s)
      THEN Reply(c.s, <<E("failed to create session", Events(c.s))>>, "")
      ELSE RunCommand(c.s))

\* ExecPipe: the three pipes of a new session, then the command started.
ExecPipe(s, pipesOK) ==
    Then(ConnectIfNil(s), LAMBDA c :
      IF ~c.ok THEN Reply(c.s, c.err, "")
      ELSE IF ~NewSession(c.s)
      THEN Reply(c.s, <<E("failed to create session", Events(c.s))>>, "")
      ELSE IF ~pipesOK THEN Reply(c.s, <<E("failed to create pipe", Events(c.s))>>, "")
      ELSE Then(RunCommand(c.s), LAMBDA r :
        IF r.ok THEN Reply(r.s, <<>>, "pipes")
        ELSE Reply(r.s, <<E("failed to start command", Events(r.s))>>, "")))

\* Close: closes the transport of a client in place and keeps the client; a
\* transport that is closed already answers with an error.
Close(s) ==
    CASE s.client = "nil"    -> [s |-> s, ok |-> TRUE, err |-> <<>>]
      [] s.client = "open"   -> [s |-> [s EXCEPT !.client = "closed"], ok |-> TRUE, err |-> <<>>]
      [] s.client = "lost"   -> [s |-> [s EXCEPT !.client = "closed"], ok |-> TRUE, err |-> <<>>]
      [] s.client = "closed" ->
           [s |-> s, ok |-> FALSE, err |-> <<E("use of closed network connection", Events(s))>>]

IsConnected(s) == s.client # "nil"

\* A terminal tty: whether stdin is one, and whether MakeRaw and RequestPty
\* work on it; run is how the remote command ends: "ok", "fail" or "panic".
TTYs == [isTerminal : BOOLEAN, makeRawOK : BOOLEAN, ptyOK : BOOLEAN,
         run : {"ok", "fail", "panic"}]

\* defer term.Restore(fd, state): whatever way the body ends, the terminal
\* gets the mode MakeRaw found.
DeferRestore_SkipOnPanic(state, r) ==
    IF r.panicked THEN r ELSE [r EXCEPT !.modes = Append(@, state)]

DeferRestore(state, r) == [r EXCEPT !.modes = Append(@, state)]

Interactive(s, err, modes, panicked) ==
    [s |-> s, ok |-> err = <<>> /\ ~panicked, err |-> err, modes |-> modes,
     panicked |-> panicked]

\* session.Run(cmd) with the terminal as it is.
RunInteractive(s, tty, modes) ==
    CASE tty.run = "ok"    -> Interactive([s EXCEPT !.runs = @ + 1], <<>>, modes, FALSE)
      [] tty.run = "fail"  ->
           Interactive([s EXCEPT !.runs = @ + 1], <<E("command failed", Events(s) + 1)>>,
                       modes, FALSE)
      [] tty.run = "panic" -> Interactive([s EXCEPT !.runs = @ + 1], <<>>, modes, TRUE)

\* ExecInteractive: modes is the sequence of modes the terminal goes through,
\* from the mode at entry on.
ExecInteractive(s, tty, entry) ==
    Then(ConnectIfNil(s), LAMBDA c :
      IF ~c.ok THEN Interactive(c.s, c.err, <<entry>>, FALSE)
      ELSE IF ~NewSession(c.s)
      THEN Interactive(c.s, <<E("failed to create session", Events(c.s))>>, <<entry>>, FALSE)
      ELSE IF ~tty.isTerminal THEN RunInteractive(c.s, tty, <<entry>>)
      ELSE IF ~tty.makeRawOK
      THEN Interactive(c.s, <<E("failed to make terminal raw", Events(c.s))>>, <<entry>>, FALSE)
      ELSE DeferRestore(entry,
             IF ~tty.ptyOK
             THEN Interactive(c.s, <<E("failed to request PTY", Events(c.s))>>,
                              <<entry, "raw">>, FALSE)
             ELSE RunInteractive(c.s, tty, <<entry, "raw">>)))

\* Retry configurations: delays in seconds.
RetryConfig(maxAttempts, initialDelay, maxDelay, multiplier) ==
    [MaxAttempts |-> maxAttempts, InitialDelay |-> initialDelay, MaxDelay |-> maxDelay,
     Multiplier |-> multiplier]

DefaultRetryConfig == RetryConfig(3, 1, 10, 2)

\* The configuration the environment manager connects with.
ensureSSHRetryConfig == RetryConfig(5, 2, 10, 2)

\* What a retry loop has done so far: whether each attempt succeeded, the
\* error of each failed iteration, the delays slept, the last error.
NoAttempts == [tries |-> <<>>, errs |-> <<>>, sleeps |-> <<>>, lastErr |-> <<>>, out |-> ""]

Attempted(s, ok, err, acc) ==
    [s |-> s, ok |-> ok, err |-> err, out |-> acc.out, tries |-> acc.tries,
     errs |-> acc.errs, sleeps |-> acc.sleeps]

\* The tail of an iteration that failed with err: sleep unless it was the last.
Failed(acc, err, out, attempt, config, delay) ==
    [tries |-> Append(acc.tries, FALSE), errs |-> Append(acc.errs, err),
     sleeps |-> IF attempt < config.MaxAttempts THEN Append(acc.sleeps, delay) ELSE acc.sleeps,
     lastErr |-> err, out |-> out]

NextDelay(attempt, config, delay) ==
    IF attempt < config.MaxAttempts THEN Min(delay * config.Multiplier, config.MaxDelay)
    ELSE delay

RECURSIVE ConnectAttempts(_, _, _, _, _)
\* The loop of ConnectWithRetry from iteration attempt on.
ConnectAttempts(s, config, attempt, delay, acc) ==
    IF attempt > config.MaxAttempts
    THEN Attempted(s, FALSE,
                   <<E("failed to connect after attempts", config.MaxAttempts)>> \o acc.lastErr,
                   acc)
    ELSE Then(Connect(s), LAMBDA c :
      IF c.ok THEN Attempted(c.s, TRUE, <<>>, [acc EXCEPT !.tries = Append(@, TRUE)])
      ELSE ConnectAttempts(c.s, config, attempt + 1, NextDelay(attempt, config, delay),
                           Failed(acc, c.err, "", attempt, config, delay)))

ConnectWithRetry(s, config) == ConnectAttempts(s, config, 1, config.InitialDelay, NoAttempts)

\* After a failed Exec: with no client in place, close and connect again; a
\* failure to connect again becomes the iteration's error.
Reconnect(r) ==
    IF IsConnected(r.s) THEN [s |-> r.s, err |-> r.err]
    ELSE Then(Connect(Close(r.s).s), LAMBDA c :
      IF c.ok THEN [s |-> c.s, err |-> r.err]
      ELSE [s |-> c.s, err |-> <<E("reconnection failed", Events(c.s))>> \o c.err])

RECURSIVE ExecAttempts(_, _, _, _, _)
ExecAttempts_KeepFirstError(s, config, attempt, delay, acc) ==
    IF attempt > config.MaxAttempts
    THEN Attempted(s, FALSE,
                   <<E("command failed after attempts", config.MaxAttempts)>>
                     \o (IF acc.errs = <<>> THEN <<>> ELSE acc.errs[1]),
                   acc)
    ELSE Then(Exec(s), LAMBDA r :
      IF r.ok
      THEN Attempted(r.s, TRUE, <<>>, [acc EXCEPT !.tries = Append(@, TRUE), !.out = r.out])
      ELSE Then(Reconnect(r), LAMBDA n :
        ExecAttempts(n.s, config, attempt + 1, NextDelay(attempt, config, delay),
                     Failed(acc, n.err, r.out, attempt, config, delay))))

\* The loop of ExecWithRetry from iteration attempt on.
ExecAttempts(s, config, attempt, delay, acc) ==
    IF attempt > config.MaxAttempts
    THEN Attempted(s, FALSE,
                   <<E("command failed after attempts", config.MaxAttempts)>> \o acc.lastErr,
                   acc)
    ELSE Then(Exec(s), LAMBDA r :
      IF r.ok
      THEN Attempted(r.s, TRUE, <<>>, [acc EXCEPT !.tries = Append(@, TRUE), !.out = r.out])
      ELSE Then(Reconnect(r), LAMBDA n :
        ExecAttempts(n.s, config, attempt + 1, NextDelay(attempt, config, delay),
                     Failed(acc, n.err, r.out, attempt, config, delay))))

ExecWithRetry(s, config) == ExecAttempts(s, config, 1, config.InitialDelay, NoAttempts)

(***************************************************************************)
(* Calls on the client                                                     *)
(***************************************************************************)

MaxAttemptsBound == 4

RetryConfigs ==
    {RetryConfig(n, 1, 10, 2) : n \in 0..MaxAttemptsBound}
      \cup {DefaultRetryConfig, ensureSSHRetryConfig, RetryConfig(3, 20, 10, 2)}

\* More failures than any loop makes dials or runs: the operation never succeeds.
Forever == 2 * (MaxAttemptsBound + 2) + 1

FailCounts == {0, 1, 2, Forever}

SSHInputs ==
    {SSHWorld(client, d, c, k, n) :
       d \in FailCounts, c \in FailCounts, k \in KeyFiles, n \in BOOLEAN}

\* No call is in progress and no worker of an earlier ExecContext is about:
\* such workers touch nothing the other calls use, so the other calls are
\* taken up once they have ended.
SSHIdle == sshLast = NoSSHCall /\ ctxCall.pc = "idle" /\ lingering = NoWorkers

\* What a finished call leaves for inspection.
SSHResult(op, s, r) ==
    [NoSSHCall EXCEPT !.op = op, !.ok = r.ok, !.err = r.err, !.was = client,
                      !.keysOK = (\E i \in DOMAIN s.keys : s.keys[i] = "valid"),
                      !.auth = r.s.sshConfig, !.in = s, !.dials = r.s.dials, !.runs = r.s.runs]

CallConnect ==
    /\ SSHIdle
    /\ \E s \in SSHInputs : \E r \in {Connect(s)} :
         /\ client' = r.s.client
         /\ sshLast' = SSHResult("Connect", s, r)
    /\ UNCHANGED <<terminal, ctxCall, lingering>>

CallExec ==
    /\ SSHIdle
    /\ \E s \in SSHInputs : \E r \in {Exec(s)} :
         /\ client' = r.s.client
         /\ sshLast' = [SSHResult("Exec", s, r) EXCEPT !.out = r.out]
    /\ UNCHANGED <<terminal, ctxCall, lingering>>

CallExecPipe ==
    /\ SSHIdle
    /\ \E s \in SSHInputs, pipesOK \in BOOLEAN : \E r \in {ExecPipe(s, pipesOK)} :
         /\ client' = r.s.client
         /\ sshLast' = [SSHResult("ExecPipe", s, r) EXCEPT !.out = r.out]
    /\ UNCHANGED <<terminal, ctxCall, lingering>>

CallExecInteractive ==
    /\ SSHIdle
    /\ \E s \in SSHInputs, tty \in TTYs : \E r \in {ExecInteractive(s, tty, terminal)} :
         /\ client' = r.s.client
         /\ terminal' = r.modes[Len(r.modes)]
         /\ sshLast' = [SSHResult("ExecInteractive", s, r) EXCEPT
                          !.modes = r.modes, !.tty = tty, !.panicked = r.panicked]
    /\ UNCHANGED <<ctxCall, lingering>>

CallClose ==
    /\ SSHIdle
    /\ \E r \in {Close(SSHWorld(client, 0, 0, [i \in DOMAIN KeyPaths |-> "valid"], TRUE))} :
         /\ client' = r.s.client
         /\ sshLast' = SSHResult("Close", r.s, r)
    /\ UNCHANGED <<terminal, ctxCall, lingering>>

CallConnectWithRetry ==
    /\ SSHIdle
    /\ \E s \in SSHInputs, config \in RetryConfigs : \E r \in {ConnectWithRetry(s, config)} :
         /\ client' = r.s.client
         /\ sshLast' = [SSHResult("ConnectWithRetry", s, r) EXCEPT
                          !.tries = r.tries, !.errs = r.errs, !.sleeps = r.sleeps,
                          !.config = config]
    /\ UNCHANGED <<terminal, ctxCall, lingering>>

CallExecWithRetry ==
    /\ SSHIdle
    /\ \E s \in SSHInputs, config \in RetryConfigs : \E r \in {ExecWithRetry(s, config)} :
         /\ client' = r.s.client
         /\ sshLast' = [SSHResult("ExecWithRetry", s, r) EXCEPT
                          !.out = r.out, !.tries = r.tries, !.errs = r.errs,
                          !.sleeps = r.sleeps, !.config = config]
    /\ UNCHANGED <<terminal, ctxCall, lingering>>

\* The user's terminal is in either mode when a call is made.
TerminalChange(mode) ==
    /\ SSHIdle
    /\ terminal # mode
    /\ terminal' = mode
    /\ UNCHANGED <<client, ctxCall, lingering, sshLast>>

\* The transport of a connected client is lost (the VM stops, the network
\* drops): c.client stays in place and no session can be opened on it.
TransportLost ==
    /\ SSHIdle
    /\ client = "open"
    /\ client' = "lost"
    /\ UNCHANGED <<terminal, ctxCall, lingering, sshLast>>

\* The caller takes the result.
SSHReturn ==
    /\ sshLast # NoSSHCall
    /\ sshLast' = NoSSHCall
    /\ UNCHANGED <<client, terminal, ctxCall, lingering>>

(***************************************************************************)
(* ExecContext (client.go): the caller waits in a select while a goroutine *)
(* runs the command and puts its error on the channel done; the context    *)
(* is cancelled or runs out at any time, the command ends at any time or   *)
(* never.                                                                  *)
(***************************************************************************)

\* ctx.Err() of a context that is done.
CtxErr(ctx) ==
    IF ctx = "canceled" THEN "context canceled" ELSE "context deadline exceeded"

\* Up to the select: connect if needed, a new session, the goroutine started.
ExecContextBegin ==
    /\ sshLast = NoSSHCall
    /\ ctxCall.pc = "idle"
    /\ Cardinality(Workers \ FreeWorkers) <= MaxLingering
    /\ \E s \in SSHInputs, ctx \in {"live", "canceled", "deadline"} :
       \E c \in {ConnectIfNil(s)} :
         /\ client' = c.s.client
         /\ IF ~c.ok
            THEN /\ sshLast' = SSHResult("ExecContext", s, Reply(c.s, c.err, ""))
                 /\ UNCHANGED ctxCall
            ELSE IF ~NewSession(c.s)
            THEN /\ sshLast' = SSHResult("ExecContext", s,
                      Reply(c.s, <<E("failed to create session", Events(c.s))>>, ""))
                 /\ UNCHANGED ctxCall
            ELSE /\ ctxCall' = [pc |-> "waiting", ctx |-> ctx, remote |-> "running",
                                done |-> "empty", res |-> "none", output |-> "",
                                dials |-> c.s.dials, was |-> client]
                 /\ UNCHANGED sshLast
    /\ UNCHANGED <<terminal, lingering>>

\* The context is cancelled, or its deadline passes.
CtxCancel(cause) ==
    /\ ctxCall.pc = "waiting"
    /\ ctxCall.ctx = "live"
    /\ ctxCall' = [ctxCall EXCEPT !.ctx = cause]
    /\ UNCHANGED <<client, terminal, lingering, sshLast>>

\* done := make(chan error, 1)
DoneCap == 1

\* A send on done proceeds when the buffer has room or a receiver waits: with
\* no buffer, only while the caller is in its select.
SendCanProceed_Unbuffered(buffered, receiving) == receiving

SendCanProceed(buffered, receiving) == buffered < DoneCap \/ receiving

\* The remote command ends: session.CombinedOutput returns in the worker,
\* which assigns output and err and comes to its send.
RemoteReturns(ok) ==
    /\ ctxCall.pc = "waiting"
    /\ ctxCall.remote = "running"
    /\ ctxCall' = [ctxCall EXCEPT !.remote = "returned",
                                  !.res = IF ok THEN "nil" ELSE "error",
                                  !.output = IF ok THEN "output" ELSE "partial"]
    /\ UNCHANGED <<client, terminal, lingering, sshLast>>

\* done <- err in the worker of the call in progress, which then ends.
WorkerSend ==
    /\ ctxCall.pc = "waiting"
    /\ ctxCall.remote = "returned"
    /\ SendCanProceed(IF ctxCall.done = "empty" THEN 0 ELSE 1, TRUE)
    /\ ctxCall' = [ctxCall EXCEPT !.remote = "exited", !.done = ctxCall.res]
    /\ UNCHANGED <<client, terminal, lingering, sshLast>>

\* The remote command of a worker left behind ends: the caller's
\* session.Signal and the deferred session.Close have ended it, or it ended
\* by itself.
LingerReturns(w) ==
    /\ lingering[w] = "running"
    /\ lingering' = [lingering EXCEPT ![w] = "returned"]
    /\ UNCHANGED <<client, terminal, ctxCall, sshLast>>

\* done <- err in a worker left behind: nobody receives from its channel, whose
\* buffer is empty.
LingerSend(w) ==
    /\ lingering[w] = "returned"
    /\ SendCanProceed(0, FALSE)
    /\ lingering' = [lingering EXCEPT ![w] = "none"]
    /\ UNCHANGED <<client, terminal, ctxCall, sshLast>>

\* The cases of the select that can proceed.
SelectCases_OnlyDone(c) == IF c.done # "empty" THEN {"done"} ELSE {}

SelectCases(c) ==
    (IF c.ctx # "live" THEN {"ctx"} ELSE {}) \cup (IF c.done # "empty" THEN {"done"} ELSE {})

\* What ExecContext returns from the case taken.
SelectResult(c, branch) ==
    [NoSSHCall EXCEPT
       !.op = "ExecContext", !.was = c.was, !.dials = c.dials, !.runs = 1,
       !.branch = branch,
       !.signalled = branch = "ctx",
       !.ok = branch = "done" /\ c.done = "nil",
       !.err = IF branch = "ctx" THEN <<E(CtxErr(c.ctx), 0)>>
               ELSE IF c.done = "error"
               THEN <<E("command failed", 0), E("remote error", 0)>>
               ELSE <<>>,
       !.out = IF branch = "ctx" THEN "" ELSE c.output]

\* The select takes one of the cases that can proceed and the call returns.
ExecContextSelect ==
    /\ ctxCall.pc = "waiting"
    /\ \E branch \in SelectCases(ctxCall) : sshLast' = SelectResult(ctxCall, branch)
    /\ ctxCall' = NoCtxCall
    /\ lingering' = IF ctxCall.remote \in {"running", "returned"}
                     THEN [lingering EXCEPT ![CHOOSE w \in FreeWorkers : \A v \in FreeWorkers : w <= v] =
                                                ctxCall.remote]
                     ELSE lingering
    /\ UNCHANGED <<client, terminal>>

SSHCall ==
    \/ CallConnect
    \/ CallExec
    \/ CallExecPipe
    \/ CallExecInteractive
    \/ CallClose
    \/ CallConnectWithRetry
    \/ CallExecWithRetry
    \/ ExecContextBegin

NextSSH ==
    \/ SSHCall /\ UNCHANGED <<envVars, vmVars, nameVars, raceVars>>
    \/ SSHReturn /\ UNCHANGED <<envVars, vmVars, nameVars, raceVars>>
    \/ (\E mode \in {"cooked", "raw"} : TerminalChange(mode)) /\ UNCHANGED <<envVars, vmVars, nameVars, raceVars>>
    \/ TransportLost /\ UNCHANGED <<envVars, vmVars, nameVars, raceVars>>
    \/ (\E cause \in {"canceled", "deadline"} : CtxCancel(cause)) /\ UNCHANGED <<envVars, vmVars, nameVars, raceVars>>
    \/ (\E ok \in BOOLEAN : RemoteReturns(ok)) /\ UNCHANGED <<envVars, vmVars, nameVars, raceVars>>
    \/ WorkerSend /\ UNCHANGED <<envVars, vmVars, nameVars, raceVars>>
    \/ (\E w \in Workers : LingerReturns(w)) /\ UNCHANGED <<envVars, vmVars, nameVars, raceVars>>
    \/ (\E w \in Workers : LingerSend(w)) /\ UNCHANGED <<envVars, vmVars, nameVars, raceVars>>
    \/ ExecContextSelect /\ UNCHANGED <<envVars, vmVars, nameVars, raceVars>>

\* The Go scheduler runs a goroutine whose select can proceed.
SpecSSH ==
    /\ Init /\ [][NextSSH]_vars
    /\ WF_vars(ExecContextSelect /\ UNCHANGED <<envVars, vmVars, nameVars, raceVars>>)
    /\ WF_vars(WorkerSend /\ UNCHANGED <<envVars, vmVars, nameVars, raceVars>>)
    /\ \A w \in Workers : WF_vars(LingerSend(w) /\ UNCHANGED <<envVars, vmVars, nameVars, raceVars>>)

(***************************************************************************)
(* Calls of the naming functions (pkg/env/naming.go)                       *)
(***************************************************************************)

MaxNameLen == 3

NameAlphabet == {"a", "Z", "9", "_", "-", "U+03B1", " ", "."}

\* Every text over the alphabet of at most MaxNameLen code points.
RECURSIVE TextsUpTo(_)
TextsUpTo(n) ==
    IF n = 0 THEN {<<>>}
    ELSE TextsUpTo(n - 1)
           \cup {Append(t, c) : t \in {u \in TextsUpTo(n - 1) : Len(u) = n - 1},
                                c \in NameAlphabet}

\* Names at the length limit, and the names the package's tests use.
LongNames ==
    {Repeat("a", 32), Repeat("a", 33), Repeat("a", 31) \o <<"U+03B1">>,
     <<"_">> \o Repeat("9", 31), <<"Z">> \o Repeat("-", 31),
     Chars("my-project"), Chars("my_project"), Chars("project123"), Chars("_project"),
     Chars("-project"), Chars("1project"), Chars("project@123"), Chars("my project"),
     Chars("my.project"), Chars("MyProject")}

NameStrings == TextsUpTo(MaxNameLen) \cup LongNames

CallGenerateName(projectPath) ==
    /\ nameCall = NoNameCall
    /\ nameCall' = [op |-> "GenerateName", arg |-> projectPath,
                    ok |-> NamingNameOf[projectPath].ok,
                    name |-> NamingNameOf[projectPath].name]

CallIsValidName(name) ==
    /\ nameCall = NoNameCall
    /\ nameCall' = [op |-> "IsValidName", arg |-> name, ok |-> IsValidName(name),
                    name |-> <<>>]

\* The caller takes the result.
NameReturn ==
    /\ nameCall # NoNameCall
    /\ nameCall' = NoNameCall

NextNaming ==
    \/ NameReturn /\ UNCHANGED <<envVars, vmVars, sshVars, raceVars>>
    \/ (\E p \in NamingPaths : CallGenerateName(p)) /\ UNCHANGED <<envVars, vmVars, sshVars, raceVars>>
    \/ (\E n \in NameStrings : CallIsValidName(n)) /\ UNCHANGED <<envVars, vmVars, sshVars, raceVars>>

SpecNaming == Init /\ [][NextNaming]_vars

(***************************************************************************)
(* Properties                                                              *)
(***************************************************************************)

Tags(cmds) == {cmds[i][1] : i \in DOMAIN cmds}

Count(tag, cmds) == Cardinality({i \in DOMAIN cmds : cmds[i][1] = tag})

MutatingCmds == {"useradd", "mkdir", "unshare", "mount", "userdel", "pkill"}

EnvNames(envs) == [i \in DOMAIN envs |-> envs[i].name]

\* The three checks of the exists probe, read off the guest.
UserExists(n) == n \in users

PidFileExists(n) == pidFile[n] # 0

HolderAlive(n) == pidFile[n] \in procs

\* The environment is Ready for path p in guest g: the probe's checks and the
\* bind mount.
ReadyIn(g, n, p) ==
    /\ n \in g.users
    /\ g.pidFile[n] # 0
    /\ g.pidFile[n] \in g.procs
    /\ g.mounts[g.pidFile[n]] = <<p>>

Ready(n, p) == ReadyIn(Guest, n, p)

\* C1: Create is idempotent.  When the exists probe of a Create is true the
\* call succeeds with the environment {generate(p), absolute(p)} and issues no
\* mutating command; and a successful Create of the same path right after a
\* successful Create issues no useradd, so the two ran useradd once when the
\* first one provisioned (and never when it found the environment).
C1_CreateIdempotent ==
    /\ (last.op = "Create" /\ last.exists) =>
          /\ last.ok
          /\ last.err = ""
          /\ last.env = [name |-> GenerateName(Abs(last.arg)).name, path |-> Abs(last.arg)]
          /\ Tags(last.cmds) \cap MutatingCmds = {}
    /\ (last.op = "Create" /\ last.ok) =>
          \A p \in Paths, in \in CreateInputs :
             (AbsOf[p] = AbsOf[last.arg] /\ Reaches(in)) =>
                LET r == Create(Guest, in.plan, in.dies, connected, in.sshUp, p)
                IN  r.ok =>
                      /\ Count("useradd", r.cmds) = 0
                      /\ Count("useradd", last.cmds) + Count("useradd", r.cmds)
                            = IF last.exists THEN 0 ELSE 1

\* C1 witness: a Create that found its environment, after one that provisioned it.
C1_Witness ==
    /\ last.op = "Create" /\ last.exists /\ last.ok
    /\ Ready(last.env.name, last.env.path)

\* C2: whenever Create(p) returns success, the user generate(p) exists, the
\* PID file exists and names a live process, and that process's mount
\* namespace holds exactly one bind mount at /workspace, of absolute(p).
C2_CreatePostcondition ==
    (last.op = "Create" /\ last.ok) =>
       Ready(GenerateName(Abs(last.arg)).name, Abs(last.arg))

\* C3: Exists(name) answers true exactly when the user exists, the PID file
\* exists and the process it names is alive, and answers false without error
\* whenever one of the three fails.
C3_ExistsIffProbe ==
    (last.op = "Exists" /\ last.ok) =>
       (last.exists <=>
          (UserExists(last.arg) /\ PidFileExists(last.arg) /\ HolderAlive(last.arg)))

\* C4: a successful Delete(name) of a Ready environment leaves no user `name`
\* and no live process named by /envs/<name>/namespace.pid.
C4_DeleteRemovesEnvironment ==
    [][(/\ last'.op = "Delete" /\ last'.ok
        /\ \E p \in Paths : Ready(last'.arg, p))
       => (last'.arg \notin users' /\ pidFile'[last'.arg] \notin procs')]_vars

\* C5: a Delete whose exists probe is false returns the not-found error,
\* issues neither pkill nor userdel and leaves the guest as it was.
C5_DeleteAbsent ==
    [][(last'.op = "Delete" /\ last'.err # "ssh" /\ ~last'.exists)
       => (/\ ~last'.ok
           /\ last'.err = "notfound"
           /\ Tags(last'.cmds) \cap {"pkill", "userdel"} = {}
           /\ Guest' = Guest)]_vars

\* C5 witness: Delete of a name whose user exists while its holder is gone.
C5_Witness ==
    /\ last.op = "Delete" /\ last.err = "notfound"
    /\ UserExists(last.arg) /\ ~HolderAlive(last.arg)

\* C6: after a successful Delete(name) List no longer returns name, and after
\* a delete-all in which every deletion succeeded List returns no environment.
C6_DeletedNotListed ==
    \A order \in Orders(envDirs) :
       LET r == List(Guest, NoFaults, order, connected, TRUE)
       IN  /\ (last.op = "Delete" /\ last.ok) =>
                 \A i \in DOMAIN r.envs : r.envs[i].name # last.arg
           /\ (last.op \in {"DeleteAll", "delete-all"} /\ last.ok /\ last.envs # <<>>
                 /\ last.err = "") =>
                 (r.ok /\ r.envs = <<>>)

\* C7: after N >= 0 successful creates of distinct paths and no deletes, List
\* returns without error and holds each generated name, with empty project path.
C7_ListAfterCreates ==
    (onlyCreates /\ last.op = "List" /\ last.clean) =>
       /\ last.ok
       /\ \A n \in users : \E i \in DOMAIN last.envs : last.envs[i] = [name |-> n, path |-> <<>>]

\* The lists of environments a listing can hold: every order of every set of names.
EnvLists ==
    UNION {{[i \in DOMAIN o |-> [name |-> o[i], path |-> <<>>]] : o \in Orders(S)} :
              S \in SUBSET Names}

\* The caller saw userdel succeed for n.
Deleted(cmds, n) == \E i \in DOMAIN cmds : cmds[i] = <<"userdel", n, TRUE>>

IsProbe(c) == c[1] = "probe"

\* One Delete per listed environment, in list order, and failed holds exactly
\* the environments whose Delete did not succeed, ok being that there is none.
LoopAccounts(envs, failed, cmds, ok) ==
    LET probes == SelectSeq(cmds, IsProbe)
        NotDeleted(n) == ~Deleted(cmds, n)
    IN  /\ [i \in DOMAIN probes |-> probes[i][2]] = EnvNames(envs)
        /\ failed = SelectSeq(EnvNames(envs), NotDeleted)
        /\ ok <=> \A i \in DOMAIN envs : Deleted(cmds, envs[i].name)

\* C8: deleting all environments is best-effort and serial.  Manager.DeleteAll
\* and the delete-all command attempt Delete once for every listed
\* environment, in list order, going on after a failure; the result is success
\* iff every Delete succeeded and otherwise one error for the failed ones.
C8_DeleteAllBestEffort ==
    /\ (last.op \in {"DeleteAll", "delete-all"} /\ last.err \in {"", "some"}) =>
          /\ LoopAccounts(last.envs, last.failed, last.cmds, last.ok)
          /\ last.ok <=> last.err = ""
    /\ Idle =>
          \A envs \in EnvLists, plan \in DeletePlans :
             LET start == [g |-> Guest, failed |-> <<>>, cmds |-> <<>>]
                 m == DeleteEach(envs, plan, start)
                 c == runDeleteEach(envs, plan, start)
             IN  /\ LoopAccounts(envs, m.failed, m.cmds, m.failed = <<>>)
                 /\ LoopAccounts(envs, c.failed, c.cmds, c.failed = <<>>)

\* C8 witness: a DeleteAll whose one Delete failed and is reported.
C8_Witness ==
    /\ last.op = "DeleteAll" /\ ~last.ok /\ last.err = "some"
    /\ Len(last.envs) = 1 /\ last.failed = EnvNames(last.envs)

\* C9: when the user of an environment exists but its namespace process is
\* gone, the next Create for the path succeeds and the environment is Ready.
C9_RecoversLostNamespace ==
    [][(/\ last'.op = "Create" /\ last'.clean /\ NameOf[AbsOf[last'.arg]].ok
        /\ UserExists(NameOf[AbsOf[last'.arg]].name)
        /\ ~HolderAlive(NameOf[AbsOf[last'.arg]].name))
       => (last'.ok /\ ReadyIn(Guest', NameOf[AbsOf[last'.arg]].name, AbsOf[last'.arg]))]_vars

\* C10: environments are one-to-one with project paths: Create(p2) never
\* returns success for an environment whose /workspace is bound to another path.
C10_OneEnvironmentPerPath ==
    (last.op = "Create" /\ last.ok /\ PidFileExists(last.env.name)) =>
       \A i \in DOMAIN mounts[pidFile[last.env.name]] :
          mounts[pidFile[last.env.name]][i] = Abs(last.arg)

\* The backend command of an argument vector, behind --tty=false when it is there.
Verb(argv) == IF argv[1] = "--tty=false" THEN argv[2] ELSE argv[1]

Runs(calls, verb) == {i \in DOMAIN calls : Verb(calls[i]) = verb}

Ran(calls, verb) == Runs(calls, verb) # {}

Status == instances[DefaultInstanceName]

\* C11: EnsureRunning is idempotent and minimal.  It runs backend `create`
\* only when the instance is absent and `start` only when it is not Running,
\* each at most once; on a Running instance it runs neither and succeeds when
\* nothing fails; and whenever it returns success the instance is Running.
C11_EnsureRunningMinimal ==
    [][vmLast'.op = "EnsureRunning" =>
          /\ Ran(vmLast'.calls, "create") => Status = "Absent"
          /\ Ran(vmLast'.calls, "start") => Status # "Running"
          /\ Cardinality(Runs(vmLast'.calls, "create")) <= 1
          /\ Cardinality(Runs(vmLast'.calls, "start")) <= 1
          /\ (Status = "Running" /\ vmLast'.clean) => vmLast'.ok
          /\ vmLast'.ok => Status' = "Running"]_vars

\* C11 witness: EnsureRunning made the absent instance and started it.
C11_Witness ==
    /\ vmLast.op = "EnsureRunning" /\ vmLast.ok
    /\ Ran(vmLast.calls, "create") /\ Ran(vmLast.calls, "start")
    /\ Status = "Running"

\* C12: a VM controller operation whose precondition fails runs no mutating
\* backend command.  Create on an existing instance returns the already-exists
\* error (or the error of the listing) without running `create`; Stop and
\* Delete on an absent instance return an error without running `stop`/`delete`.
C12_FailedPreconditionRunsNothing ==
    [][/\ (vmLast'.op = "Create" /\ Status # "Absent") =>
             /\ ~vmLast'.ok
             /\ ~Ran(vmLast'.calls, "create")
             /\ \/ vmLast'.err = <<"instance already exists">>
                \/ vmLast'.err[1] = "failed to list instances"
       /\ (vmLast'.op = "Stop" /\ Status = "Absent") =>
             (~vmLast'.ok /\ ~Ran(vmLast'.calls, "stop"))
       /\ (vmLast'.op = "Delete" /\ Status = "Absent") =>
             (~vmLast'.ok /\ ~Ran(vmLast'.calls, "delete"))
       /\ vmLast'.op \in {"Create", "Stop", "Delete"} => 
             (instances' # instances =>
                Ran(vmLast'.calls, "create") \/ Ran(vmLast'.calls, "stop")
                   \/ Ran(vmLast'.calls, "delete"))]_vars

\* C12 witness: Create refused on an instance that exists.
C12_Witness ==
    /\ vmLast.op = "Create" /\ vmLast.err = <<"instance already exists">>
    /\ Status # "Absent"

\* C13: Start is a no-op on a running VM.  On a Running instance it runs no
\* `start` and fails only if the instance cannot be looked up; for any other
\* status of an existing instance that it looked up, it runs `start <name>`
\* exactly once, last, and returns an error iff that run fails.
C13_StartNoOpWhenRunning ==
    [][vmLast'.op = "Start" =>
          /\ Status = "Running" =>
                /\ ~Ran(vmLast'.calls, "start")
                /\ vmLast'.ok \/ vmLast'.err[1] = "failed to get instance"
          /\ (Status \in {"Stopped", "Broken"}
                /\ (vmLast'.ok \/ vmLast'.err[1] # "failed to get instance")) =>
                /\ Runs(vmLast'.calls, "start") = {Len(vmLast'.calls)}
                /\ Verb(vmLast'.calls[Len(vmLast'.calls)]) = "start"
                /\ vmLast'.calls[Len(vmLast'.calls)][Len(vmLast'.calls[Len(vmLast'.calls)])]
                      = DefaultInstanceName
                /\ vmLast'.ok <=> vmLast'.oks[Len(vmLast'.oks)]]_vars

\* C13 witness: Start on a running instance, done without a `start` run.
C13_Witness ==
    /\ vmLast.op = "Start" /\ vmLast.ok /\ vmLast.clean
    /\ ~Ran(vmLast.calls, "start") /\ Status = "Running"

\* The argument vectors the VM controller may hand to the backend.
AllowedArgv ==
    {<<"--tty=false", "list", "--json">>,
     <<"--tty=false", "create", "--name=" \o DefaultInstanceName, ConfigPath>>,
     <<"--tty=false", "start", DefaultInstanceName>>,
     <<"--tty=false", "stop", DefaultInstanceName>>}

\* C14: every backend invocation of the VM controller has --tty=false as its
\* first argument, and the argument vectors are exactly those of list, create,
\* start, stop and delete, delete ending in --force iff force was requested.
C14_ArgumentVectors ==
    \A i \in DOMAIN vmLast.calls :
       \/ vmLast.calls[i] \in AllowedArgv
       \/ vmLast.calls[i] = IF vmLast.force
                            THEN <<"--tty=false", "delete", DefaultInstanceName, "--force">>
                            ELSE <<"--tty=false", "delete", DefaultInstanceName>>

\* The records of a document that is an array of records or a single record.
IsRecord(d) == d.kind = "object"

IsRecordArray(d) == d.kind = "array" /\ \A i \in DOMAIN d.elems : IsRecord(d.elems[i])

RecordOf(d) == [name |-> d.name, status |-> d.status]

ParseFailed(err) == \E i \in DOMAIN err :
                       err[i] = "failed to parse limactl list output as array or object"

\* What listInstances makes of arrays of records and of single records, and
\* how Exists and GetInstance select among the records.
AcceptsBothShapes ==
    /\ (vmLast.op = "listInstances" /\ IsRecordArray(vmLast.doc)) =>
          /\ vmLast.ok
          /\ vmLast.list = [i \in DOMAIN vmLast.doc.elems |-> RecordOf(vmLast.doc.elems[i])]
    /\ (vmLast.op = "listInstances" /\ IsRecord(vmLast.doc)) =>
          (vmLast.ok /\ vmLast.list = <<RecordOf(vmLast.doc)>>)
    /\ (vmLast.op = "Exists" /\ vmLast.ok) =>
          (vmLast.answer <=> Status # "Absent")
    /\ (vmLast.op = "GetInstance" /\ vmLast.ok) =>
          vmLast.list = <<[name |-> DefaultInstanceName, status |-> Status]>>
    /\ (vmLast.op = "GetInstance" /\ Status # "Absent" /\ vmLast.clean) => vmLast.ok

ExecOps == {"Exec", "ExecContext", "ExecInteractive", "ExecPipe"}

\* The errors Connect returns.
ConnectErrors == {"no valid SSH keys found", "failed to dial SSH"}

\* C16: an operation that needs a connection and is called on a session
\* without an open one (never connected, or closed with Close) tries to
\* connect; if the connection is not opened, the operation returns the
\* connect error and has not run the command.
C16_ImplicitConnect ==
    sshLast.op \in ExecOps /\ sshLast.was # "open" =>
      /\ sshLast.dials >= 1 \/ ~sshLast.keysOK
      /\ client # "open" =>
           /\ sshLast.err # <<>>
           /\ sshLast.err[1].msg \in ConnectErrors
           /\ sshLast.runs = 0

\* C17: Close returns no error whenever it is called, leaves no open
\* transport behind, and has no effect on a session that has none.
C17_CloseIdempotent ==
    sshLast.op = "Close" =>
      /\ sshLast.ok
      /\ client # "open"
      /\ sshLast.was # "open" => client = sshLast.was

RetryOps == {"ConnectWithRetry", "ExecWithRetry"}

\* The text of a retry wrapper's final error, less the number.
AfterAttempts(op) ==
    IF op = "ConnectWithRetry" THEN "failed to connect after attempts"
    ELSE "command failed after attempts"

\* The operation the wrapper retries fails exactly k times and then succeeds.
FailsThenSucceeds(r, k) ==
    \/ r.op = "ConnectWithRetry" /\ r.in.client = "nil" /\ r.keysOK /\ r.in.dialFails = k
    \/ r.op = "ExecWithRetry" /\ r.in.client = "open" /\ r.in.sessionOK /\ r.in.cmdFails = k

\* The operation the wrapper retries fails every time.
AlwaysFails(r) ==
    \/ r.op = "ConnectWithRetry" /\ r.in.client = "nil"
         /\ (~r.keysOK \/ r.in.dialFails = Forever)
    \/ r.op = "ExecWithRetry" /\ r.in.client = "open"
         /\ (~r.in.sessionOK \/ r.in.cmdFails = Forever)
    \/ r.op = "ExecWithRetry" /\ r.in.client = "nil"
         /\ (~r.keysOK \/ r.in.dialFails = Forever)

\* C18: a retry wrapper makes at most MaxAttempts attempts and stops at the
\* first success; an operation that fails twice and then succeeds gives
\* success after exactly 3 attempts; one that always fails is attempted
\* exactly MaxAttempts times and the error names MaxAttempts and wraps the
\* error the last attempt ended with, which is the latest error of all.
C18_RetryAttempts ==
    sshLast.op \in RetryOps =>
      LET r == sshLast
          n == Len(r.tries)
          max == r.config.MaxAttempts
      IN  /\ n <= max
          /\ \A i \in 1..(n - 1) : ~r.tries[i]
          /\ r.ok <=> (n >= 1 /\ r.tries[n])
          /\ Len(r.errs) = (IF r.ok THEN n - 1 ELSE n)
          /\ FailsThenSucceeds(r, 2) /\ max >= 3 => r.ok /\ n = 3
          /\ AlwaysFails(r) => ~r.ok
          /\ ~r.ok =>
               /\ n = max
               /\ r.err[1] = E(AfterAttempts(r.op), max)
               /\ n >= 1 =>
                    /\ Tail(r.err) = r.errs[n]
                    /\ r.errs[n] # <<>>
                    /\ \A i \in 1..n :
                         r.errs[i][Len(r.errs[i])].at <= r.errs[n][Len(r.errs[n])].at

\* C18 witness: ExecWithRetry of a command that always fails, with the
\* default three attempts, each ending with an error of its own.
C18_Witness ==
    /\ sshLast.op = "ExecWithRetry"
    /\ sshLast.config = DefaultRetryConfig
    /\ sshLast.in.client = "open"
    /\ sshLast.in.cmdFails = Forever
    /\ sshLast.tries = <<FALSE, FALSE, FALSE>>
    /\ sshLast.errs[1] # sshLast.errs[3]
    /\ ~sshLast.ok

\* C19: when the select of ExecContext is taken with the context done and
\* the remote command still running, the session is sent the kill signal
\* and the call returns empty output with the context's own error and
\* nothing around it; and once the context is done a waiting ExecContext
\* returns, whether or not the remote command ever ends.
C19_Returned ==
    ctxCall.pc = "waiting" /\ ctxCall.ctx # "live" /\ ctxCall.remote = "running"
      /\ ctxCall'.pc = "idle" =>
        /\ sshLast'.op = "ExecContext"
        /\ sshLast'.signalled
        /\ sshLast'.out = ""
        /\ sshLast'.err = <<E(CtxErr(ctxCall.ctx), 0)>>

C19_CancelReturns ==
    /\ [][C19_Returned]_vars
    /\ (ctxCall.pc = "waiting" /\ ctxCall.ctx # "live") ~> (ctxCall.pc = "idle")

\* C19 witness: ExecContext has returned the context's error after a
\* cancellation, with the kill signal sent.
C19_Witness ==
    /\ sshLast.op = "ExecContext"
    /\ sshLast.branch = "ctx"
    /\ sshLast.signalled
    /\ sshLast.err = <<E("context canceled", 0)>>
    /\ sshLast.out = ""

\* C20: ExecInteractive puts the terminal into raw mode only when stdin is
\* a terminal, and whenever it has done so (the command succeeded, the PTY
\* request failed, the command failed, or it panicked) the terminal is back
\* in the mode it had at entry when ExecInteractive is left; a terminal
\* never made raw is left as it was.
C20_RawModeScoped ==
    sshLast.op = "ExecInteractive" =>
      LET m == sshLast.modes
      IN  /\ terminal = m[1]
          /\ Len(m) > 1 =>
               /\ sshLast.tty.isTerminal
               /\ m = <<m[1], "raw", m[1]>>
          /\ sshLast.runs > 0 /\ sshLast.tty.isTerminal => Len(m) > 1

\* C20 witness: a command that panics on a cooked terminal made raw, and
\* the terminal cooked again afterwards.
C20_Witness ==
    /\ sshLast.op = "ExecInteractive"
    /\ sshLast.panicked
    /\ sshLast.modes = <<"cooked", "raw", "cooked">>
    /\ terminal = "cooked"

\* The key files of the search path that can be read and parse.
ValidKeys(keys) == {i \in DOMAIN keys : keys[i] = "valid"}

\* C21: Connect on a session without a client offers exactly the keys of
\* the search path that are readable and parseable, whatever the other
\* files are, and dials with them; it fails with the no-keys error, without
\* dialing, exactly when no file of the path is a valid key.
C21_ValidKeysUsed ==
    sshLast.op = "Connect" /\ sshLast.was = "nil" =>
      LET valid == ValidKeys(sshLast.in.keys)
      IN  /\ valid # {} =>
               /\ sshLast.dials = 1
               /\ Len(sshLast.auth) = Cardinality(valid)
               /\ Range(sshLast.auth) = {KeyPaths[i] : i \in valid}
          /\ valid = {} => ~sshLast.ok /\ sshLast.dials = 0
          /\ (sshLast.err # <<>> /\ sshLast.err[1].msg = "no valid SSH keys found")
               <=> valid = {}

\* C21 witness: the first key file does not parse, the second is valid, and
\* Connect succeeds with the second.
C21_Witness ==
    /\ sshLast.op = "Connect"
    /\ sshLast.was = "nil"
    /\ sshLast.in.keys = <<"invalid", "valid">>
    /\ sshLast.ok
    /\ sshLast.auth = <<"ssh_key">>

\* The part of a generated name before "-<hash>", and its last four code points.
NamePrefix(name) == SubSeq(name, 1, Len(name) - 5)

NameSuffix(name) == SubSeq(name, Len(name) - 3, Len(name))

\* C22: for a path whose absolute form has a basename other than "." and
\* "/", GenerateName succeeds with a name of at most 32 bytes that IsValidName
\* accepts and that matches ^[a-z][a-z0-9-]*-[0-9a-f]{4}$ ; for a path that
\* names the root it fails.
C22_GeneratedNameValid ==
    nameCall.op = "GenerateName" =>
      LET basename == Base(Abs(nameCall.arg))
          name     == nameCall.name
      IN  IF basename \in {<<".">>, <<"/">>}
          THEN ~nameCall.ok
          ELSE /\ nameCall.ok
               /\ ByteLen(name) <= 32
               /\ IsValidName(name)
               /\ IsValidEnvironmentName(name)
               /\ NamePrefix(name) # <<>>
               /\ NamePrefix(name)[Len(NamePrefix(name))] # "-"

\* C22 witness: a basename that starts with a digit gets a valid name.
C22_Witness ==
    /\ nameCall.op = "GenerateName"
    /\ nameCall.arg = Chars("/Users/alice/123-project")
    /\ nameCall.ok
    /\ NamePrefix(nameCall.name) = Chars("env-123-project")

\* C23: the result of GenerateName depends on the absolute path only: paths
\* with the same absolute form get the same result; paths with the same
\* basename get names with the same prefix, each ending in the hex form of
\* the first two digest bytes of its own absolute path, so that the names
\* differ whenever those bytes differ.
C23_NameFromAbsolutePath ==
    nameCall.op = "GenerateName" =>
      \A q \in NamingPaths :
        LET a == NamingAbsOf[nameCall.arg]
            b == NamingAbsOf[q]
            r == NamingNameOf[q]
        IN  /\ a = b => r.ok = nameCall.ok /\ r.name = nameCall.name
            /\ nameCall.ok /\ r.ok /\ Base(a) = Base(b) =>
                 /\ NamePrefix(r.name) = NamePrefix(nameCall.name)
                 /\ NameSuffix(nameCall.name)
                      = HexByte(sha1Sum(a)[2]) \o HexByte(sha1Sum(a)[3])
                 /\ <<sha1Sum(a)[2], sha1Sum(a)[3]>> # <<sha1Sum(b)[2], sha1Sum(b)[3]>>
                      => r.name # nameCall.name

\* C23 witness: my-project under /Users/alice, whose name has the prefix of
\* and another suffix than the name of my-project under /Users/bob.
C23_Witness ==
    /\ nameCall.op = "GenerateName"
    /\ nameCall.arg = Chars("/Users/alice/my-project")
    /\ nameCall.ok
    /\ NamePrefix(nameCall.name) = Chars("my-project")
    /\ NamingNameOf[Chars("/Users/bob/my-project")].name # nameCall.name
    /\ NamePrefix(NamingNameOf[Chars("/Users/bob/my-project")].name) = Chars("my-project")

\* The names the specification's is_valid_name accepts.
SpecValidName(s) ==
    /\ ByteLen(s) >= 1
    /\ ByteLen(s) <= 32
    /\ s[1] \in Range(LowerLetters) \cup {"_"}
    /\ \A i \in DOMAIN s : s[i] \in Range(LowerLetters) \cup Digits \cup {"_", "-"}

\* C24: IsValidName(s) is true exactly when s has 1 to 32 bytes, starts with
\* one of [a-z_] and holds only [a-z0-9_-].
C24_IsValidNameExact ==
    nameCall.op = "IsValidName" => (nameCall.ok <=> SpecValidName(nameCall.arg))


\* The confirmation line as the user typed it: spaces dropped at both ends,
\* upper case folded, is "y" or "yes".
AnsweredYes(input) ==
    /\ ReadLineOK(input)
    /\ NormalizeResponse(input) \in { <<"y">>, <<"y", "e", "s">> }

\* C25: delete and delete-all call Manager.Delete (and so issue pkill or
\* userdel) only when --force was given or the confirmation line read is "y" or
\* "yes"; after any other line the command ends successfully, having deleted
\* nothing and left the guest as it was.
C25_DeleteNeedsConfirmation ==
    [][(last'.op \in {"delete", "delete-all"}) =>
          /\ (last'.deletes > 0 \/ Tags(last'.cmds) \cap {"pkill", "userdel"} # {})
                => (last'.force \/ AnsweredYes(last'.input))
          /\ (last'.asked /\ ReadLineOK(last'.input) /\ ~AnsweredYes(last'.input))
                => (/\ last'.ok
                    /\ last'.deletes = 0
                    /\ Tags(last'.cmds) \cap MutatingCmds = {}
                    /\ Guest' = Guest)]_vars

\* C25 happens: the delete command asked about an existing environment, read
\* "n" and ended with the user still there.
C25_Witness ==
    /\ last.op = "delete"
    /\ last.asked
    /\ last.input = <<"n", "\n">>
    /\ last.ok
    /\ NameOf[AbsOf[last.arg]].name \in users


\* The provisioning commands in the order createUser and createNamespace issue them.
ProvisioningOrder == <<"useradd", "mkdir", "unshare", "cat", "kill0", "mount">>

IsProvisioning(c) == c[1] \in ProvisioningCmds

\* The provisioning commands among the commands of a call, in order of issue.
Provisioned(cmds) == SelectSeq(cmds, IsProvisioning)

\* C26: the provisioning commands of a Create are issued in the order useradd,
\* mkdir, unshare, read of the PID file, kill -0, bind mount, each for the
\* environment's name and only after the one before it returned success, none
\* of them twice; a Create that provisions with success issues all six.
C26_ProvisioningOrder ==
    (last.op = "Create") =>
       LET pc == Provisioned(last.cmds)
       IN  /\ Len(pc) <= Len(ProvisioningOrder)
           /\ \A i \in DOMAIN pc :
                 /\ pc[i][1] = ProvisioningOrder[i]
                 /\ pc[i][2] = NameOf[AbsOf[last.arg]].name
                 /\ i < Len(pc) => pc[i][3]
           /\ (last.ok /\ ~last.exists) =>
                 (Len(pc) = Len(ProvisioningOrder) /\ \A i \in DOMAIN pc : pc[i][3])

\* C26 happens: a Create provisioned an environment with all six commands.
C26_Witness ==
    /\ last.op = "Create"
    /\ last.ok
    /\ ~last.exists
    /\ Len(Provisioned(last.cmds)) = 6


\* A Create whose useradd the controller saw succeed and whose provisioning
\* ended at a failed later step.
FailedAfterUseradd(call) ==
    LET pc == Provisioned(call.cmds)
    IN  /\ call.op = "Create"
        /\ Len(pc) >= 2
        /\ pc[1][1] = "useradd" /\ pc[1][3]
        /\ ~pc[Len(pc)][3]

\* C27: when a step after a successful useradd fails, Create issues
\* userdel -r <name> once, as the last command it issues, and returns the
\* namespace error whether the userdel succeeded or not.
C27_RollbackOnce ==
    FailedAfterUseradd(last) =>
       /\ Count("userdel", last.cmds) = 1
       /\ last.cmds[Len(last.cmds)][1] = "userdel"
       /\ last.cmds[Len(last.cmds)][2] = NameOf[AbsOf[last.arg]].name
       /\ last.cmds[Len(last.cmds) - 1] = Provisioned(last.cmds)[Len(Provisioned(last.cmds))]
       /\ ~last.ok
       /\ last.err = "namespace"

\* C27 happens: the bind mount failed, the userdel of the rollback failed as
\* well, and Create returned the namespace error.
C27_Witness ==
    /\ FailedAfterUseradd(last)
    /\ Len(Provisioned(last.cmds)) = 6
    /\ ~last.cmds[Len(last.cmds)][3]
    /\ last.err = "namespace"


\* What an environment leaves on the guest: accounts, /envs directories, PID
\* files, holder processes and their mounts.
Artifacts(g) == <<g.users, g.envDirs, g.pidFile, g.procs, g.mounts>>

\* C28: a Create that fails after useradd and whose rollback userdel succeeds
\* leaves no user, no /envs/<name> directory, no PID file and no holder behind:
\* the guest is as it was before the Create.
C28_RollbackRestoresGuest ==
    [][(FailedAfterUseradd(last') /\ last'.cmds[Len(last'.cmds)][3]) =>
          /\ NameOf[AbsOf[last'.arg]].name \notin users'
          /\ Artifacts(Guest') = Artifacts(Guest)]_vars


\* A Create whose useradd the controller saw fail.
UseraddFailed(call) ==
    LET pc == Provisioned(call.cmds)
    IN  /\ call.op = "Create"
        /\ pc # <<>>
        /\ pc[1][1] = "useradd" /\ ~pc[1][3]

\* C29: when the useradd of a Create fails, Create returns the user error,
\* issues no userdel and no later provisioning command, and the guest is as it
\* was before the Create.
C29_UseraddFailure ==
    [][UseraddFailed(last') =>
          /\ ~last'.ok
          /\ last'.err = "useradd"
          /\ Tags(last'.cmds) \cap {"userdel", "mkdir", "unshare", "cat", "kill0", "mount"} = {}
          /\ Artifacts(Guest') = Artifacts(Guest)]_vars

\* The part of C29 about the commands alone.
UseraddFailureStops ==
    UseraddFailed(last) =>
       /\ ~last.ok
       /\ last.err = "useradd"
       /\ Tags(last.cmds) \cap {"userdel", "mkdir", "unshare", "cat", "kill0", "mount"} = {}


C31_DeleteOrder ==
    (last.op = "Delete" /\ last.exists) =>
       /\ Len(last.cmds) = 3
       /\ last.cmds[1] = <<"probe", last.arg, TRUE>>
       /\ last.cmds[2][1] = "pkill" /\ last.cmds[2][2] = last.arg
       /\ last.cmds[3][1] = "userdel" /\ last.cmds[3][2] = last.arg
       /\ last.ok = last.cmds[3][3]
       /\ last.err = (IF last.cmds[3][3] THEN "" ELSE "userdel")

\* C31 happens: the pkill of a Delete failed and the Delete succeeded on its userdel.
C31_Witness ==
    /\ last.op = "Delete"
    /\ last.exists
    /\ Len(last.cmds) = 3
    /\ ~last.cmds[2][3]
    /\ last.cmds[3][3]
    /\ last.ok


\* What the user's shell is to run for a command of EnterNamespace.
GivenCommand(cmd) == IF cmd = <<>> THEN << <<"exec">>, <<"bash">> >> ELSE cmd

\* An EnterNamespace that reached the guest over a working session, for an
\* environment that is Ready.
EntersReady(call, g) ==
    /\ call.op = "EnterNamespace"
    /\ call.clean
    /\ \E p \in Paths : ReadyIn(g, call.arg, AbsOf[p])

\* The words of a command hold neither a blank nor a quote nor a separator.
PlainWords(cmd) ==
    \A i \in DOMAIN cmd : \A j \in DOMAIN cmd[i] : cmd[i][j] \notin {" ", "'", ";", "&&"}

\* C32: EnterNamespace on a Ready environment issues one remote command,
\* which enters the namespace of the PID file's process as user <name>, changes
\* to /workspace and runs bash for an empty argv and the given command
\* otherwise; nothing is provisioned or torn down and the guest artifacts of
\* the environment are as before.
C32_EnterKeepsReady ==
    [][EntersReady(last', Guest) =>
          /\ Len(last'.cmds) = 1
          /\ last'.cmds[1] = <<"enter", last'.arg, TRUE>>
          /\ Len(last'.lines) = 1
          /\ last'.run = <<GivenCommand(last'.argv)>>
          /\ ~last'.teardown
          /\ Tags(last'.cmds) \cap MutatingCmds = {}
          /\ Artifacts(Guest') = Artifacts(Guest)]_vars

\* C32 for commands whose words are plain.
EnterPlainCommand ==
    [][(EntersReady(last', Guest) /\ PlainWords(last'.argv)) =>
          /\ last'.cmds = << <<"enter", last'.arg, TRUE>> >>
          /\ last'.run = <<GivenCommand(last'.argv)>>
          /\ ~last'.teardown
          /\ Artifacts(Guest') = Artifacts(Guest)]_vars


\* The context of the call was cancelled while one of its commands was in flight.
Cancelled(call) == call.cancelAt > 0

\* C33: an Exists, Create or Delete whose context is cancelled during the
\* call returns an error that is the context's: not a success, not a false
\* existence answer without error, not the not-found error.
C33_CancellationReported ==
    (last.op \in {"Exists", "Create", "Delete"} /\ Cancelled(last)) =>
       /\ ~last.ok
       /\ last.err \notin {"", "notfound"}


\* C37: a Create whose context is cancelled before its exists probe
\* completes issues no useradd and no later provisioning command, starts no
\* useradd on the guest and leaves the guest as it was.
C37_CancelledCreateInert ==
    [][(last'.op = "Create" /\ last'.cancelAt = 1 /\ last'.cmds[1][1] = "probe") =>
          /\ Tags(last'.cmds) \cap (ProvisioningCmds \cup {"userdel"}) = {}
          /\ Artifacts(Guest') = Artifacts(Guest)]_vars


\* User n exists and no live namespace process is recorded for it.
OrphanIn(g, n) == n \in g.users /\ ~(g.pidFile[n] # 0 /\ g.pidFile[n] \in g.procs)

\* What the guest holds for name n.
NameState(g, n) ==
    <<n \in g.users, n \in g.envDirs, g.pidFile[n], g.pidFile[n] \in g.procs>>

\* The name a call of Create or Delete is about.
CallName(call) ==
    IF call.op = "Create" THEN NameOf[AbsOf[call.arg]].name ELSE call.arg

\* Create and Delete on an orphan user: Create fails at useradd, Delete with
\* not-found, and neither issues a userdel.
OrphanCallFails(call, n) ==
    /\ (call.op = "Create" /\ CallName(call) = n /\ call.err # "ssh") =>
          (~call.ok /\ call.err = "useradd" /\ "userdel" \notin Tags(call.cmds))
    /\ (call.op = "Delete" /\ CallName(call) = n /\ call.err # "ssh") =>
          (~call.ok /\ call.err = "notfound" /\ "userdel" \notin Tags(call.cmds))

\* No userdel and no pkill was issued for n.
Untouched(call, n) ==
    \A i \in DOMAIN call.cmds :
       call.cmds[i][1] \in {"userdel", "pkill"} => call.cmds[i][2] # n

RetryAfterLoss(r) ==
    /\ r.op = "ExecWithRetry"
    /\ r.was = "lost"
    /\ r.config.MaxAttempts >= 2
    /\ r.keysOK /\ r.in.sessionOK
    /\ r.in.dialFails = 0 /\ r.in.cmdFails = 0

\* C34: when an attempt of ExecWithRetry fails on a lost transport the
\* wrapper closes the client and dials again before the next attempt, which
\* runs on the new connection and succeeds when the VM is reachable.
C34_ReconnectAfterLoss ==
    RetryAfterLoss(sshLast) =>
       /\ sshLast.dials >= 1
       /\ sshLast.tries = <<FALSE, TRUE>>
       /\ sshLast.ok
       /\ client = "open"


\* The sleeps of a retry wrapper follow the schedule: one after each attempt
\* but the last made, the first of InitialDelay, each later one the one before
\* times Multiplier, held at MaxDelay.
Backoff(r) ==
    /\ Len(r.sleeps) = (IF r.tries = <<>> THEN 0 ELSE Len(r.tries) - 1)
    /\ r.sleeps # <<>> => r.sleeps[1] = r.config.InitialDelay
    /\ \A i \in 1..(Len(r.sleeps) - 1) :
          r.sleeps[i + 1] = Min(r.sleeps[i] * r.config.Multiplier, r.config.MaxDelay)
    /\ (r.config = ensureSSHRetryConfig /\ ~r.ok) => r.sleeps = <<2, 4, 8, 10>>

\* C35: the retry wrappers sleep once between consecutive attempts and not
\* after the last; the first sleep is InitialDelay, each later sleep is the one
\* before times Multiplier, no sleep is longer than MaxDelay; with 5 attempts,
\* 2 s, multiplier 2 and a cap of 10 s the sleeps are 2, 4, 8 and 10 seconds.
C35_BackoffSchedule ==
    sshLast.op \in RetryOps =>
       /\ Backoff(sshLast)
       /\ \A i \in DOMAIN sshLast.sleeps : sshLast.sleeps[i] <= sshLast.config.MaxDelay

\* C35 for configurations whose InitialDelay is not above MaxDelay.
BackoffWithinCap ==
    (sshLast.op \in RetryOps /\ sshLast.config.InitialDelay <= sshLast.config.MaxDelay) =>
       /\ Backoff(sshLast)
       /\ \A i \in DOMAIN sshLast.sleeps : sshLast.sleeps[i] <= sshLast.config.MaxDelay


\* A worker of ExecContext has come back from the remote call and is at its send.
WorkerAtSend(w) == IF w = 0 THEN ctxCall.remote = "returned" ELSE lingering[w] = "returned"

\* The select of an ExecContext takes a case and the call returns.
SelectReturns == ctxCall.pc = "waiting" /\ ctxCall'.pc = "idle"

\* C39: in ExecContext the worker's send on done can always proceed, for the
\* worker of the call in progress and for one left behind by a call that
\* returned on its context, and the worker ends after it; the caller takes the
\* output only on the done case, when the worker has sent and ended, and does
\* not read it on the context case; each call returns once, with the worker's
\* result or with the context's error.
C39_WorkerAndCaller ==
    /\ [](ctxCall.remote = "returned" =>
             SendCanProceed(IF ctxCall.done = "empty" THEN 0 ELSE 1, ctxCall.pc = "waiting"))
    /\ [](\A w \in Workers : lingering[w] = "returned" => SendCanProceed(0, FALSE))
    /\ \A w \in {0} \cup Workers : WorkerAtSend(w) ~> ~WorkerAtSend(w)
    /\ [][SelectReturns =>
            /\ sshLast = NoSSHCall
            /\ sshLast'.op = "ExecContext"
            /\ sshLast'.branch \in {"ctx", "done"}
            /\ sshLast'.branch = "done" =>
                  /\ ctxCall.remote = "exited"
                  /\ ctxCall.done = ctxCall.res
                  /\ sshLast'.out = ctxCall.output
                  /\ sshLast'.ok = (ctxCall.res = "nil")
                  /\ \A j \in DOMAIN sshLast'.err : sshLast'.err[j].msg # CtxErr(ctxCall.ctx)
            /\ sshLast'.branch = "ctx" =>
                  /\ ctxCall.ctx # "live"
                  /\ sshLast'.out = ""
                  /\ sshLast'.err = <<E(CtxErr(ctxCall.ctx), 0)>>
                  /\ ~sshLast'.ok]_vars

\* C39 happens: a call has returned on its context and the worker it left
\* behind has come back from the remote call and is at its send.
C39_Witness ==
    /\ sshLast.op = "ExecContext"
    /\ sshLast.branch = "ctx"
    /\ \E w \in Workers : lingering[w] = "returned"


\* The /workspace bind mount of the project path is in place in the namespace
\* of the process named by the PID file.
RaceMounted ==
    /\ pidFile[RaceEnv.name] # 0
    /\ \E i \in DOMAIN mounts[pidFile[RaceEnv.name]] :
          mounts[pidFile[RaceEnv.name]][i] = RaceEnv.path

\* Both Create calls have returned.
RaceOver == \A p \in Racers : race[p].pc = "done"

\* C36: of two concurrent Create calls for one project path, a call returns
\* success only when the /workspace bind mount of the path is in place in the
\* namespace named by the PID file, and once both have returned at most one
\* namespace-holder process of the name is alive.
C36_ConcurrentCreate ==
    /\ [][\A p \in Racers :
             (race[p].pc # "done" /\ race'[p].pc = "done" /\ race'[p].ok) => RaceMounted']_vars
    /\ [](RaceOver => Cardinality(procs) <= 1)

\* The first half of C36 alone, and without any failing command.
RaceSuccessMounted ==
    [][\A p \in Racers :
         (race[p].pc # "done" /\ race'[p].pc = "done" /\ race'[p].ok) => RaceMounted']_vars

\* The second half of C36 alone.
RaceOneHolder == RaceOver => Cardinality(procs) <= 1

\* The second half of C36 when no command fails.
RaceOneHolderNoFault ==
    (RaceOver /\ \A p \in Racers : race[p].plan = NoFaults) => Cardinality(procs) <= 1

\* A Create that runs alone, step by step, does what Create does.
RaceSoloIsCreate ==
    \A p \in Racers :
       (race[p].pc = "done" /\ \A q \in Racers \ {p} : race[q].pc = "idle") =>
          \E r \in {Create([users |-> {}, envDirs |-> {}, pidFile |-> [n \in Names |-> 0],
                             procs |-> {}, mounts |-> [k \in Pids |-> <<>>], nextPid |-> 1,
                             userProcs |-> {}, sshUser |-> sshUser],
                            race[p].plan, race[p].dies, TRUE, TRUE, RacePath)} :
             /\ r.g = Guest
             /\ r.ok = race[p].ok
             /\ r.exists = race[p].exists

====
